---- MODULE Spec2Model ----
(***************************************************************************)
(* Model of the ingestion / deduplication pipeline, the processing stage,  *)
(* the digest selector and the daily job of the ai-news-aggregator.        *)
(*                                                                         *)
(* The persisted state is the committed content of the content_items,      *)
(* articles and subscribers tables.  Every action is one whole handler     *)
(* call, from its first query to its last commit or rollback; the daily    *)
(* job is a process whose steps end at its commits, `run` holding its      *)
(* position and its local variables.                                       *)
(***************************************************************************)
EXTENDS Integers, Sequences, FiniteSets, TLC

VARIABLES items, articles, delivered, last, items0, articles0, delivered0,
          subscribers, run, calls, source_rows, digest_logs, workers

vars == <<items, articles, delivered, last, items0, articles0, delivered0,
          subscribers, run, calls, source_rows, digest_logs, workers>>

----------------------------------------------------------------------------
(* Text.  A string is kept run-length encoded: a sequence of runs [c, n], n *)
(* copies of the character c, adjacent runs having different characters.   *)
(* Lengths are therefore the real lengths the code compares with 10, 50    *)
(* and 100.                                                                *)

Empty == <<>>

Lit(ch, n) == IF n = 0 THEN <<>> ELSE << [c |-> ch, n |-> n] >>

RECURSIVE StrLen(_)
StrLen(s) == IF s = <<>> THEN 0 ELSE s[1].n + StrLen(Tail(s))

Cat(s, t) ==
    IF s = <<>> THEN t
    ELSE IF t = <<>> THEN s
    ELSE IF s[Len(s)].c = t[1].c
         THEN SubSeq(s, 1, Len(s) - 1)
                 \o << [c |-> t[1].c, n |-> s[Len(s)].n + t[1].n] >>
                 \o Tail(t)
         ELSE s \o t

IsSpace(ch) == ch = " "

LowerChar(ch) ==
    CASE ch = "A" -> "a"
      [] ch = "B" -> "b"
      [] ch = "T" -> "t"
      [] OTHER    -> ch

RECURSIVE Lower(_)
Lower(s) ==
    IF s = <<>> THEN <<>>
    ELSE Cat(<< [c |-> LowerChar(s[1].c), n |-> s[1].n] >>, Lower(Tail(s)))

Strip(s) ==
    LET a == IF s # <<>> /\ IsSpace(s[1].c) THEN Tail(s) ELSE s
    IN  IF a # <<>> /\ IsSpace(a[Len(a)].c) THEN SubSeq(a, 1, Len(a) - 1) ELSE a

\* ' '.join(text.split()): outer whitespace dropped, inner runs become one space
JoinSplit(s) ==
    LET a == Strip(s)
    IN  [i \in 1..Len(a) |-> IF IsSpace(a[i].c) THEN [c |-> " ", n |-> 1] ELSE a[i]]

\* len(content.split()): the number of maximal whitespace-free pieces
SplitCount(s) ==
    Cardinality({i \in 1..Len(s) :
                    /\ ~IsSpace(s[i].c)
                    /\ (i = 1 \/ IsSpace(s[i-1].c))})

\* hashlib.sha256(...).hexdigest(), taken to be collision free: the digest is
\* identified with the byte string it was computed from
Sha256(text) == << "sha256", text >>

HashKeepsCase(title, content) ==
    Sha256(JoinSplit(Strip(Cat(Cat(title, Lit("|", 1)), content))))

HashKeepsSpacing(title, content) ==
    Sha256(Strip(Lower(Cat(Cat(title, Lit("|", 1)), content))))

generate_content_hash(title, content) ==
    Sha256(JoinSplit(Strip(Lower(Cat(Cat(title, Lit("|", 1)), content)))))

\* calculate_word_count: only assigns when the content is non-empty
\* len(self.content) in place of len(self.content.split())
CountCharacters(old, content) ==
    IF content # <<>> THEN StrLen(content) ELSE old

calculate_word_count(old, content) ==
    IF content # <<>> THEN SplitCount(content) ELSE old

----------------------------------------------------------------------------
(* Program constants                                                       *)

MIN_CONTENT_LENGTH == 50      \* body length below which a stored item is upgraded / a feed item rejected
MIN_YOUTUBE_LENGTH == 10      \* description length accepted for a video without transcript
MIN_PROCESS_LENGTH == 100     \* body length below which an item is unprocessable

NULL == "NULL"

----------------------------------------------------------------------------
(* Inputs of the ingestion pipeline                                        *)

SourceTypes == {"rss", "youtube"}

\* (id, link, published_at) of a fetched dict; the external id is `id or link`
Identities ==
    { [id |-> "e1", link |-> "u", published_at |-> 1],
      [id |-> "e2", link |-> "u", published_at |-> 1],
      [id |-> "e2", link |-> "u", published_at |-> 2] }

Titles == { Lit("T", 1) }

\* 100 characters: two words of 49 letters with two blanks between them
TwoWords == Cat(Lit("b", 49), Cat(Lit(" ", 2), Lit("b", 49)))

\* (content, transcript, description) of a fetched dict.  A feed entry carries
\* 'content', a video carries 'transcript' and 'description'.
FeedPayloads ==
    { [content |-> c, transcript |-> Empty, description |-> Empty] :
        c \in { Empty, Lit("b", 15), Lit("a", 50), Lit("a", 100), Lit("A", 100),
                TwoWords } }
    \cup
    { [content |-> Empty, transcript |-> Empty, description |-> d] :
        d \in { Lit("b", 49), Lit("a", 50) } }

VideoPayloads ==
    { [content |-> Empty, transcript |-> t, description |-> Empty] :
        t \in { Lit("a", 100) } }
    \cup
    { [content |-> Empty, transcript |-> Empty, description |-> d] :
        d \in { Empty, Lit("b", 9), Lit("b", 15) } }

Payloads == FeedPayloads \cup VideoPayloads

MkRaw(i, t, p) ==
    [id |-> i.id, link |-> i.link, published_at |-> i.published_at, title |-> t,
     content |-> p.content, transcript |-> p.transcript,
     description |-> p.description]

LongFeed == [content |-> Lit("a", 100), transcript |-> Empty, description |-> Empty]

\* a dict whose id is missing and whose link identifies it, and one with neither
LinkOnly == MkRaw([id |-> "", link |-> "e1", published_at |-> 1], Lit("T", 1), LongFeed)
NoIdentity == MkRaw([id |-> "", link |-> "", published_at |-> 1], Lit("T", 1), LongFeed)

RawItems ==
    { MkRaw(i, t, p) : i \in Identities, t \in Titles, p \in Payloads }
    \cup { LinkOnly, NoIdentity }

----------------------------------------------------------------------------
(* content_items table                                                     *)

\* ContentItem.query.filter_by(external_id=...).first()
FindByExternalId(its, ext) ==
    LET hits == {i \in 1..Len(its) : its[i].external_id = ext}
    IN  IF hits = {} THEN 0 ELSE CHOOSE i \in hits : \A j \in hits : i <= j

\* ContentItem.query.filter_by(content_hash=...).first()
FindByContentHash(its, h) ==
    LET hits == {i \in 1..Len(its) : its[i].content_hash = h}
    IN  IF hits = {} THEN 0 ELSE CHOOSE i \in hits : \A j \in hits : i <= j

ContentItemConstraintsNoHash(its) ==
    \A i, j \in 1..Len(its) :
        i # j => its[i].external_id # its[j].external_id

\* unique=True on external_id and on content_hash (NULL hashes never clash)
ContentItemConstraints(its) ==
    \A i, j \in 1..Len(its) :
        i # j =>
            /\ its[i].external_id # its[j].external_id
            /\ (its[i].content_hash # NULL => its[i].content_hash # its[j].content_hash)

ExternalIdOrUntitled(data) ==
    IF data.id # "" THEN data.id
    ELSE IF data.link # "" THEN data.link ELSE "untitled"

\* data.get('id') or data.get('link')
ExternalIdOf(data) == IF data.id # "" THEN data.id ELSE data.link

\* data.get('content') or data.get('transcript', '')
BodyOf(data) == IF data.content # Empty THEN data.content ELSE data.transcript

NeedsUpgradeAnyStored(existing_content, new_content) ==
    /\ new_content # Empty
    /\ StrLen(new_content) >= MIN_CONTENT_LENGTH

\* the condition of the in-place update of an existing item
NeedsUpgrade(existing_content, new_content) ==
    /\ (existing_content = Empty \/ StrLen(existing_content) < MIN_CONTENT_LENGTH)
    /\ new_content # Empty
    /\ StrLen(new_content) >= MIN_CONTENT_LENGTH

\* content extraction of a new item: [ok, content]
ExtractContent(src, data) ==
    LET content == BodyOf(data)
        min_length == IF src # "youtube" THEN MIN_CONTENT_LENGTH ELSE MIN_YOUTUBE_LENGTH
    IN  IF content # Empty
        THEN [ok |-> TRUE, content |-> content]
        ELSE IF data.description = Empty \/ StrLen(data.description) < min_length
             THEN [ok |-> FALSE, content |-> data.description]
             ELSE [ok |-> TRUE, content |-> data.description]

UpgradeKeepingHash(existing, new_content) ==
    [existing EXCEPT !.content = new_content,
                     !.word_count = calculate_word_count(@, new_content)]

\* the assignments of the upgrade branch: content, calculate_word_count(),
\* content_hash = generate_content_hash()
upgrade_content(existing, new_content) ==
    [existing EXCEPT !.content = new_content,
                     !.word_count = calculate_word_count(@, new_content),
                     !.content_hash =
                         generate_content_hash(existing.title, new_content)]

\* The whole of _save_content_item.  commitOk is whether the
\* database accepts the commit apart from its uniqueness constraints.
\* Result: the value returned, the branch taken, the table afterwards.
save_content_item(its, src, data, commitOk) ==
    LET external_id == ExternalIdOf(data)
        e == FindByExternalId(its, external_id)
    IN
    IF external_id = ""
    THEN [ok |-> FALSE, branch |-> "missing_id", items |-> its]
    ELSE IF e # 0
    THEN
        LET new_content == BodyOf(data)
            upd == [its EXCEPT ![e] = upgrade_content(its[e], new_content)]
        IN  IF NeedsUpgrade(its[e].content, new_content)
            THEN IF commitOk /\ ContentItemConstraints(upd)
                 THEN [ok |-> TRUE, branch |-> "upgraded", items |-> upd]
                 ELSE [ok |-> FALSE, branch |-> "upgrade_rolled_back", items |-> its]
            ELSE [ok |-> FALSE, branch |-> "duplicate_external_id", items |-> its]
    ELSE
        LET ex == ExtractContent(src, data)
            content_item ==
                [external_id  |-> external_id,
                 title        |-> data.title,
                 content      |-> ex.content,
                 word_count   |-> calculate_word_count(NULL, ex.content),
                 content_hash |-> generate_content_hash(data.title, ex.content),
                 published_at |-> data.published_at,
                 processed    |-> FALSE]
            added == Append(its, content_item)
        IN  IF ~ex.ok
            THEN [ok |-> FALSE, branch |-> "too_short", items |-> its]
            ELSE IF FindByContentHash(its, content_item.content_hash) # 0
            THEN [ok |-> FALSE, branch |-> "duplicate_hash", items |-> its]
            ELSE IF commitOk /\ ContentItemConstraints(added)
            THEN [ok |-> TRUE, branch |-> "saved", items |-> added]
            ELSE [ok |-> FALSE, branch |-> "save_rolled_back", items |-> its]

----------------------------------------------------------------------------
(* articles table and the processing stage                                 *)

Scores == {5, 8}

\* what comes back from the model when it is asked for a score: an error,
\* a text int() does not accept, or the text of an integer
Answers ==
    { [kind |-> "error", n |-> 0], [kind |-> "text", n |-> 0] }
    \cup { [kind |-> "int", n |-> n] : n \in {-1, 0, 7, 10, 11} }

DEFAULT_SCORE == 5

Min(a, b) == IF a <= b THEN a ELSE b

Max(a, b) == IF a >= b THEN a ELSE b

IsBlank(content) == \A k \in 1..Len(content) : IsSpace(content[k].c)

rate_quality_as_answered(content, answer) ==
    IF IsBlank(content) THEN 0
    ELSE IF answer.kind = "int" THEN answer.n ELSE DEFAULT_SCORE

\* GeminiService.rate_quality
rate_quality(content, answer) ==
    IF IsBlank(content) THEN 0
    ELSE IF answer.kind = "error" THEN DEFAULT_SCORE
    ELSE IF answer.kind = "text" THEN DEFAULT_SCORE
    ELSE Max(0, Min(10, answer.n))

\* what the collaborators do during one _process_item call: whether the
\* summarizer returns text, the score it rates, whether the commit goes through
Outcomes ==
    { [summary |-> FALSE, quality |-> 5, commitOk |-> TRUE],
      [summary |-> TRUE,  quality |-> 5, commitOk |-> FALSE] }
    \cup
    { [summary |-> TRUE, quality |-> q, commitOk |-> TRUE] : q \in Scores }

FindArticleById(arts, item_id) ==
    LET hits == {a \in 1..Len(arts) : a = item_id}
    IN  IF hits = {} THEN 0 ELSE CHOOSE a \in hits : \A b \in hits : a <= b

\* the lookup on articles.content_item_id, used by
\* Article.query.filter_by(content_item_id=...).first() and by the unique index
FindArticleByItem(arts, item_id) ==
    LET hits == {a \in 1..Len(arts) : arts[a].content_item_id = item_id}
    IN  IF hits = {} THEN 0 ELSE CHOOSE a \in hits : \A b \in hits : a <= b

\* unique=True on articles.content_item_id, checked when a row is inserted
ArticleInsertAllowed(arts, item_id) == FindArticleByItem(arts, item_id) = 0

AlreadyInDigest(arts, i) ==
    \E a \in 1..Len(arts) :
        arts[a].content_item_id = i /\ arts[a].included_in_digest

\* Article.query.filter_by(content_item_id=item.id).first() found a row
AlreadyHasArticle(arts, i) == FindArticleByItem(arts, i) # 0

OnlyEmptyTooShort(content) == content = Empty

\* `not item.content or len(item.content) < 100`
TooShortToProcess(content) ==
    content = Empty \/ StrLen(content) < MIN_PROCESS_LENGTH

GivenUpWithoutSummary(its, i) == [its EXCEPT ![i].processed = TRUE]

\* `if not summary: return False`: the row is left as it was
AfterNoSummary(its, i) == its

\* _process_item with the processed flag committed on its own before the insert
process_item_flag_first(its, arts, i, o) ==
    LET marked  == [its EXCEPT ![i].processed = TRUE]
        article == [content_item_id    |-> i,
                    quality_score      |-> o.quality,
                    published_at       |-> its[i].published_at,
                    included_in_digest |-> FALSE,
                    digest_date        |-> NULL]
        same(b, r) == [ok |-> FALSE, branch |-> b, raised |-> r,
                       items |-> its, articles |-> arts]
    IN
    IF AlreadyHasArticle(arts, i)
    THEN IF o.commitOk
         THEN [ok |-> FALSE, branch |-> "already_has_article", raised |-> FALSE,
               items |-> marked, articles |-> arts]
         ELSE same("already_has_article", TRUE)
    ELSE IF TooShortToProcess(its[i].content)
    THEN IF o.commitOk
         THEN [ok |-> FALSE, branch |-> "too_short", raised |-> FALSE,
               items |-> marked, articles |-> arts]
         ELSE same("too_short", TRUE)
    ELSE IF ~o.summary
    THEN [ok |-> FALSE, branch |-> "no_summary", raised |-> FALSE,
          items |-> AfterNoSummary(its, i), articles |-> arts]
    ELSE IF o.commitOk /\ ArticleInsertAllowed(arts, i)
    THEN [ok |-> TRUE, branch |-> "processed", raised |-> FALSE,
          items |-> marked, articles |-> Append(arts, article)]
    ELSE [ok |-> FALSE, branch |-> "rolled_back", raised |-> FALSE,
          items |-> marked, articles |-> arts]

\* _process_item on item i: [ok, branch, raised, items, articles]
process_item(its, arts, i, o) ==
    LET marked  == [its EXCEPT ![i].processed = TRUE]
        article == [content_item_id    |-> i,
                    quality_score      |-> o.quality,
                    published_at       |-> its[i].published_at,
                    included_in_digest |-> FALSE,
                    digest_date        |-> NULL]
        same(b, r) == [ok |-> FALSE, branch |-> b, raised |-> r,
                       items |-> its, articles |-> arts]
    IN
    IF AlreadyHasArticle(arts, i)
    THEN IF o.commitOk
         THEN [ok |-> FALSE, branch |-> "already_has_article", raised |-> FALSE,
               items |-> marked, articles |-> arts]
         ELSE same("already_has_article", TRUE)
    ELSE IF TooShortToProcess(its[i].content)
    THEN IF o.commitOk
         THEN [ok |-> FALSE, branch |-> "too_short", raised |-> FALSE,
               items |-> marked, articles |-> arts]
         ELSE same("too_short", TRUE)
    ELSE IF ~o.summary
    THEN [ok |-> FALSE, branch |-> "no_summary", raised |-> FALSE,
          items |-> AfterNoSummary(its, i), articles |-> arts]
    ELSE IF o.commitOk /\ ArticleInsertAllowed(arts, i)
    THEN [ok |-> TRUE, branch |-> "processed", raised |-> FALSE,
          items |-> marked, articles |-> Append(arts, article)]
    ELSE same("rolled_back", FALSE)

\* the loop of process_all over the picked items, in ascending id; seen is the
\* sequence of per-item results.  A commit that raised out of _process_item
\* is not rolled back by process_all, so every later query of the same call
\* raises as well and the remaining items are counted as failed.
RECURSIVE process_loop(_, _, _, _, _)
process_loop(its, arts, picked, outs, seen) ==
    IF picked = {}
    THEN [items |-> its, articles |-> arts, results |-> seen]
    ELSE LET i == CHOOSE x \in picked : \A y \in picked : x <= y
             unusable == \E k \in 1..Len(seen) : seen[k].raised
             r == IF unusable
                  THEN [ok |-> FALSE, branch |-> "session_unusable", raised |-> TRUE,
                        items |-> its, articles |-> arts]
                  ELSE process_item(its, arts, i, outs[i])
         IN  process_loop(r.items, r.articles, picked \ {i}, outs,
                          Append(seen, [item |-> i, before |-> its[i].processed,
                                        ok |-> r.ok, branch |-> r.branch,
                                        raised |-> r.raised]))

\* the result sets a query `filter(...).limit(n)` without ORDER BY may return
LimitedSubsets(S, n) == {P \in SUBSET S : Cardinality(P) = Min(n, Cardinality(S))}

AnyStoredItem(its) == {i \in 1..Len(its) : TRUE}

Unprocessed(its) == {i \in 1..Len(its) : ~its[i].processed}

\* processed items without an article (the outer join of reprocess_failed)
Orphans(its, arts) ==
    {i \in 1..Len(its) : its[i].processed /\ FindArticleByItem(arts, i) = 0}

----------------------------------------------------------------------------
(* Digest selector                                                         *)

Dates == {1, 2}

MinQualities == {5, 7}

EligibleIncludingSent(arts, min_quality) ==
    {a \in 1..Len(arts) : arts[a].quality_score >= min_quality}

\* the filter of _get_articles_for_digest
Eligible(arts, min_quality) ==
    {a \in 1..Len(arts) :
        /\ arts[a].included_in_digest = FALSE
        /\ arts[a].quality_score >= min_quality}

RanksBeforeOldestFirst(arts, a, b) ==
    \/ arts[a].quality_score > arts[b].quality_score
    \/ /\ arts[a].quality_score = arts[b].quality_score
       /\ arts[a].published_at =< arts[b].published_at

\* a before-or-tied-with b in ORDER BY quality_score DESC, published_at DESC
RanksBefore(arts, a, b) ==
    \/ arts[a].quality_score > arts[b].quality_score
    \/ /\ arts[a].quality_score = arts[b].quality_score
       /\ arts[a].published_at >= arts[b].published_at

IsSeqOf(s, S) == \A k \in 1..Len(s) : s[k] \in S

Injective(s) == \A j, k \in 1..Len(s) : j # k => s[j] # s[k]

Range(s) == {s[k] : k \in 1..Len(s)}

SeqsOver(S, n) == UNION {[1..k -> S] : k \in 0..n}

\* _get_articles_for_digest: the lists the query may return (rows that tie in
\* both sort keys come in either order)
Selections(arts, max_articles, min_quality) ==
    LET E == Eligible(arts, min_quality)
    IN  {s \in SeqsOver(E, Min(max_articles, Cardinality(E))) :
            /\ Len(s) = Min(max_articles, Cardinality(E))
            /\ Injective(s)
            /\ \A j, k \in 1..Len(s) : j < k => RanksBefore(arts, s[j], s[k])
            /\ \A a \in E \ Range(s) : \A k \in 1..Len(s) : RanksBefore(arts, s[k], a)}

MarkFirstOnly(arts, sel, digest_date) ==
    [a \in 1..Len(arts) |->
        IF Len(sel) > 0 /\ a = sel[1]
        THEN [arts[a] EXCEPT !.included_in_digest = TRUE, !.digest_date = digest_date]
        ELSE arts[a]]

\* the assignments of _mark_articles_included, before the commit
MarkIncluded(arts, sel, digest_date) ==
    [a \in 1..Len(arts) |->
        IF a \in Range(sel)
        THEN [arts[a] EXCEPT !.included_in_digest = TRUE, !.digest_date = digest_date]
        ELSE arts[a]]

----------------------------------------------------------------------------
(* subscribers table                                                       *)

\* addresses as add_subscriber stores them (stripped, lower case)
Emails == {"a@x.io", "b@x.io"}

\* Subscriber.query.filter_by(email=...).first()
FindByEmail(subs, email) ==
    LET hits == {i \in 1..Len(subs) : subs[i].email = email}
    IN  IF hits = {} THEN 0 ELSE CHOOSE i \in hits : \A j \in hits : i <= j

\* the address has a row and its status is ACTIVE
AlreadyActive(subs, email) ==
    LET existing == FindByEmail(subs, email)
    IN  IF existing = 0 THEN FALSE ELSE subs[existing].status = "active"

\* SubscriberValidator.add_subscriber on a valid address: [ok, subscribers]
add_subscriber(subs, email, commitOk) ==
    LET existing == FindByEmail(subs, email)
        subscriber == [email |-> email, status |-> "active",
                       total_digests_sent |-> 0, last_digest_sent_at |-> NULL]
    IN  IF existing # 0
        THEN IF subs[existing].status = "active"
             THEN [ok |-> FALSE, subscribers |-> subs]
             ELSE IF commitOk
                  THEN [ok |-> TRUE,
                        subscribers |-> [subs EXCEPT ![existing].status = "active"]]
                  ELSE [ok |-> FALSE, subscribers |-> subs]
        ELSE IF commitOk
             THEN [ok |-> TRUE, subscribers |-> Append(subs, subscriber)]
             ELSE [ok |-> FALSE, subscribers |-> subs]

\* SubscriberValidator.remove_subscriber: [ok, subscribers]
remove_subscriber(subs, email, commitOk) ==
    LET subscriber == FindByEmail(subs, email)
    IN  IF subscriber = 0
        THEN [ok |-> FALSE, subscribers |-> subs]
        ELSE IF commitOk
             THEN [ok |-> TRUE,
                   subscribers |-> [subs EXCEPT ![subscriber].status = "unsubscribed"]]
             ELSE [ok |-> FALSE, subscribers |-> subs]

\* email.strip(), without the .lower()
StripOnly(email) == Strip(email)

\* email = email.strip().lower()
normalize_email(email) == Lower(Strip(email))

\* validate_email on the normalized address: not empty, and matching
\* EMAIL_PATTERN, which admits no blank
validate_email(email) ==
    /\ email # Empty
    /\ \A k \in 1..Len(email) : ~IsSpace(email[k].c)

\* the elements of a set of row ids, in ascending order
Ascending(S) ==
    CHOOSE s \in [1..Cardinality(S) -> S] :
        \A j, k \in 1..Cardinality(S) : j < k => s[j] < s[k]

\* SubscriberValidator.get_all_active: the ids of the active rows
get_all_active(subs) ==
    Ascending({i \in 1..Len(subs) : subs[i].status = "active"})

----------------------------------------------------------------------------
(* The daily job (jobs/daily_digest.py)                                    *)

RUN_PROCESS_LIMIT == 50     \* process_all(limit=50)
RUN_MAX_ARTICLES == 10      \* generate_digest(max_articles=10, ...)
RUN_MIN_QUALITY == 5        \* generate_digest(..., min_quality=5)

\* the rows of the sources table that may be active, in id order
Sources == {"feed", "channel"}

SourceOrder == <<"feed", "channel">>

\* a row of the sources table before anything was fetched from it
NewSource == [last_fetched_at |-> NULL, total_items_fetched |-> 0]

\* Source.mark_fetched(items_count).  Nothing in the fetcher calls it.
mark_fetched(row, items_count, now) ==
    [row EXCEPT !.last_fetched_at = now,
                !.total_items_fetched = @ + items_count]

SourceTypeOf(s) == IF s = "channel" THEN "youtube" ELSE "rss"

EntryA == MkRaw([id |-> "e1", link |-> "u", published_at |-> 1], Lit("T", 1), LongFeed)

VideoV ==
    MkRaw([id |-> "e2", link |-> "u", published_at |-> 2], Lit("T", 1),
          [content |-> Empty, transcript |-> TwoWords, description |-> Empty])

\* what fetch_feed / get_channel_videos may hand back for a source.  Both
\* catch every error of the fetch and return an empty list.
FetchResults(s) ==
    { [failed |-> TRUE, entries |-> <<>>] }
    \cup
    { [failed |-> FALSE, entries |-> e] :
        e \in IF s = "channel" THEN { <<VideoV>> }
                                 ELSE { <<EntryA>>, <<NoIdentity>> } }

\* cutoff_time of fetch_all, on the scale of published_at
Cutoffs == {1, 2, 3}

NotAfterCutoff(published_at, cutoff) == published_at <= cutoff

\* `published_at < cutoff_time` of the feed loop and
\* `published_at < published_after` of the video service
OlderThanCutoff(published_at, cutoff) == published_at < cutoff

\* the videos get_channel_videos hands back: _process_video_item returns
\* None for a video published before published_after
RECURSIVE PublishedAfter(_, _)
PublishedAfter(entries, published_after) ==
    IF entries = <<>> THEN <<>>
    ELSE IF OlderThanCutoff(entries[1].published_at, published_after)
         THEN PublishedAfter(Tail(entries), published_after)
         ELSE <<entries[1]>> \o PublishedAfter(Tail(entries), published_after)

\* the entries fetch_all goes through, source by source
QueueOf(srcs, f) ==
    LET part(s) ==
            IF s \in srcs
            THEN [k \in 1..Len(f[s].entries) |->
                    [source |-> s, data |-> f[s].entries[k]]]
            ELSE <<>>
    IN  part(SourceOrder[1]) \o part(SourceOrder[2])

\* the entry of stats["by_source"] for a source that handed back n entries
StatsBeforeFetch(n) ==
    [fetched |-> 0, saved |-> 0, duplicates |-> 0, error |-> FALSE]

SourceStats(n) ==
    [fetched |-> n, saved |-> 0, duplicates |-> 0, error |-> FALSE]

\* date.today() and datetime.utcnow() during a run of the job
Today == 1

\* the scores the rater gives during a run of the job
RunScores == {3, 8}

RunOutcomes ==
    { [summary |-> FALSE, quality |-> 8, commitOk |-> TRUE],
      [summary |-> TRUE,  quality |-> 8, commitOk |-> FALSE] }
    \cup
    { [summary |-> TRUE, quality |-> q, commitOk |-> TRUE] : q \in RunScores }

\* the job's position and local variables.  exit is the status returned, read
\* once pc = "done"; stages lists the stages entered; subs0 is the
\* subscribers table as the run found it; after_crash tells whether the run
\* before this one crashed.
NoRun ==
    [pc |-> "idle", date |-> 1, after_crash |-> FALSE, stages |-> <<>>,
     active |-> <<>>, subs0 |-> <<>>,
     sources |-> {}, failed |-> {}, cutoff |-> 1, queue |-> <<>>,
     by_source |-> <<>>, ingested |-> FALSE,
     total_fetched |-> 0, total_saved |-> 0, duplicates |-> 0,
     picked |-> {}, processed |-> 0,
     sel |-> <<>>, html |-> FALSE,
     attempts |-> <<>>, sent |-> 0, failed_sends |-> 0, exit |-> 0]

\* `return code`
Return(r, code) == [r EXCEPT !.pc = "done", !.exit = code]

SavedNothingFetched(r) == r.total_fetched = 0

\* fetch_results['total_saved'] == 0
SavedNothing(r) == r.total_saved = 0

\* fetch_all has returned: stop when nothing was saved, else go on to
\* processing
AfterFetchAll(r) ==
    LET r1 == [r EXCEPT !.ingested = TRUE]
    IN  IF SavedNothing(r1) THEN Return(r1, 0) ELSE [r1 EXCEPT !.pc = "process"]

\* process_all has returned
AfterProcessAll(r) ==
    IF r.processed = 0 THEN Return(r, 1) ELSE [r EXCEPT !.pc = "digest"]

AttemptsUntilFailure(active, success) ==
    LET stop == {k \in 1..Len(active) : ~success[k]}
        n == IF stop = {} THEN Len(active)
             ELSE CHOOSE k \in stop : \A j \in stop : k <= j
    IN  [k \in 1..n |-> [sub |-> active[k], success |-> success[k]]]

\* the sends of the delivery loop, success[k] being what send_digest returns
\* for the k-th subscriber
Attempts(active, success) ==
    [k \in 1..Len(active) |-> [sub |-> active[k], success |-> success[k]]]

Succeeded(attempts) == {attempts[k].sub : k \in {j \in 1..Len(attempts) : attempts[j].success}}

\* the rows after the delivery loop: `sub.total_digests_sent += 1` for the
\* ones sent to.  `sub.last_digest_sent = ...` sets an attribute that is
\* no column of the table (the column is last_digest_sent_at).
CountSends(subs, attempts) ==
    [i \in 1..Len(subs) |->
        IF i \in Succeeded(attempts)
        THEN [subs[i] EXCEPT !.total_digests_sent = @ + 1]
        ELSE subs[i]]

----------------------------------------------------------------------------
(* digest_logs table                                                       *)

\* DigestLog(subscriber_id=..., digest_date=..., articles_included=...,
\* article_ids=...): status takes its column default
NewDigestLog(subscriber_id, digest_date, sel) ==
    [subscriber_id     |-> subscriber_id,
     digest_date       |-> digest_date,
     articles_included |-> Len(sel),
     article_ids       |-> sel,
     status            |-> "pending",
     error_message     |-> NULL,
     email_service_id  |-> NULL]

ServiceIds == {NULL, "m1"}

\* DigestLog.mark_sent(email_service_id), before its save
mark_sent(log, email_service_id) ==
    [log EXCEPT !.status = "sent",
                !.email_service_id =
                    IF email_service_id # NULL THEN email_service_id ELSE @]

\* DigestLog.mark_failed(error_message), before its save
mark_failed(log, error_message) ==
    [log EXCEPT !.status = "failed", !.error_message = error_message]

----------------------------------------------------------------------------
(* Writes of runs that share the store.  Each run works in its own         *)
(* session: what it read stays as it was read, and the unique indexes are  *)
(* enforced by the database when the run commits.                          *)

NoWrite == [kind |-> "none", e |-> 0, row |-> <<>>]

\* _save_content_item up to its commit: the row it is about to insert, the
\* update it is about to make, or nothing when it returns False before writing
PendingSave(its, src, data) ==
    LET external_id == ExternalIdOf(data)
        e == FindByExternalId(its, external_id)
    IN
    IF external_id = ""
    THEN NoWrite
    ELSE IF e # 0
    THEN
        LET new_content == BodyOf(data)
        IN  IF NeedsUpgrade(its[e].content, new_content)
            THEN [kind |-> "update", e |-> e,
                  row |-> upgrade_content(its[e], new_content)]
            ELSE NoWrite
    ELSE
        LET ex == ExtractContent(src, data)
            content_item ==
                [external_id  |-> external_id,
                 title        |-> data.title,
                 content      |-> ex.content,
                 word_count   |-> calculate_word_count(NULL, ex.content),
                 content_hash |-> generate_content_hash(data.title, ex.content),
                 published_at |-> data.published_at,
                 processed    |-> FALSE]
        IN  IF ~ex.ok
            THEN NoWrite
            ELSE IF FindByContentHash(its, content_item.content_hash) # 0
            THEN NoWrite
            ELSE [kind |-> "insert", e |-> 0, row |-> content_item]

\* the table as the pending write would leave it
WithWrite(its, w) ==
    IF w.kind = "insert" THEN Append(its, w.row)
    ELSE [its EXCEPT ![w.e] = [@ EXCEPT !.content = w.row.content,
                                        !.word_count = w.row.word_count,
                                        !.content_hash = w.row.content_hash]]

\* db.session.commit() of the pending write, and the except branch: rollback,
\* return False
CommitSave(its, w, commitOk) ==
    IF commitOk /\ ContentItemConstraints(WithWrite(its, w))
    THEN [ok |-> TRUE, items |-> WithWrite(its, w)]
    ELSE [ok |-> FALSE, items |-> its]

\* _process_item from `item.processed = True` on: the commit of the new
\* article and of the flag, or the rollback
CommitArticle(its, arts, i, quality, commitOk) ==
    IF commitOk /\ ArticleInsertAllowed(arts, i)
    THEN [ok |-> TRUE,
          items |-> [its EXCEPT ![i].processed = TRUE],
          articles |-> Append(arts, [content_item_id    |-> i,
                                     quality_score      |-> quality,
                                     published_at       |-> its[i].published_at,
                                     included_in_digest |-> FALSE,
                                     digest_date        |-> NULL])]
    ELSE [ok |-> FALSE, items |-> its, articles |-> arts]

----------------------------------------------------------------------------
(* Bounds                                                                  *)

MaxLimit == 2        \* largest `limit` passed to process_all / reprocess_failed
MaxArticles == 2     \* largest `max_articles` passed to the digest selector
MaxSent == 2         \* a run starts while every active counter is below it
MaxLogs == 2         \* rows of digest_logs

----------------------------------------------------------------------------
(* State machine                                                           *)

NoData == [id |-> "", link |-> "", published_at |-> 1, title |-> Empty,
           content |-> Empty, transcript |-> Empty, description |-> Empty]

\* the last operation: its name, its inputs and what it returned
NoLast ==
    [op |-> "init", src |-> "rss", data |-> NoData, commitOk |-> TRUE,
     ok |-> FALSE, branch |-> "", limit |-> 0, item |-> 0, reset |-> {},
     results |-> <<>>, max_articles |-> 0, min_quality |-> 0, date |-> NULL,
     sel |-> <<>>, html |-> FALSE, repeat |-> FALSE, prev_ok |-> FALSE,
     prev_sel |-> <<>>, answers |-> <<>>, pairs |-> <<>>, email |-> <<>>]

\* two invocations of the job running against the same store, each at its
\* own position in generate_digest and the delivery that follows it
Invocations == {1, 2}

NoCall == [pc |-> "idle", sel |-> <<>>, overlapped |-> FALSE,
           committed |-> FALSE, sent |-> {}]

NoCalls == <<NoCall, NoCall>>

\* two runs of the ingestion or processing pipeline against the same store.
\* write is what the run is about to commit, item and quality belong to a
\* pending article, result is what the last call of the run returned.
Workers == {1, 2}

NoWorker == [pc |-> "idle", write |-> NoWrite, item |-> 0, quality |-> 0,
             result |-> ""]

NoWorkers == <<NoWorker, NoWorker>>

Init ==
    /\ items = <<>>
    /\ articles = <<>>
    /\ delivered = {}
    /\ last = NoLast
    /\ items0 = <<>>
    /\ articles0 = <<>>
    /\ delivered0 = {}
    /\ subscribers = <<>>
    /\ run = NoRun
    /\ calls = NoCalls
    /\ source_rows = [s \in Sources |-> NewSource]
    /\ digest_logs = <<>>
    /\ workers = NoWorkers

Snapshot ==
    /\ items0' = items
    /\ articles0' = articles
    /\ delivered0' = delivered

PayloadsOf(src) == IF src = "youtube" THEN VideoPayloads ELSE FeedPayloads

\* one call of _save_content_item(source, data), data drawn from D
Save(D) ==
    \E src \in SourceTypes, data \in D, commitOk \in BOOLEAN :
        /\ [content |-> data.content, transcript |-> data.transcript,
            description |-> data.description] \in PayloadsOf(src)
        /\ LET r == save_content_item(items, src, data, commitOk)
           IN  /\ commitOk \/ r.branch \in {"save_rolled_back", "upgrade_rolled_back"}
               /\ items' = r.items
               /\ last' = [NoLast EXCEPT !.op = "save", !.src = src, !.data = data,
                                         !.commitOk = commitOk, !.ok = r.ok,
                                         !.branch = r.branch,
                                         !.repeat = (/\ last.op = "save"
                                                     /\ last.src = src
                                                     /\ last.data = data),
                                         !.prev_ok = last.ok]
        /\ UNCHANGED <<articles, delivered, subscribers, run, calls, source_rows,
                       digest_logs, workers>>
        /\ Snapshot

\* ingestion does not look at published_at: one publication time is enough
IngestItems == {d \in RawItems : d.published_at = 1}

SaveContentItem == Save(IngestItems)

\* feed entries long enough to be summarized
ProcessableItems ==
    {d \in RawItems : d.id # "" /\ d.content \in {Lit("a", 100), TwoWords}}

SaveProcessable == Save(ProcessableItems)

\* entries without description: no body, a 15-character body (unprocessable),
\* 100-character bodies or transcripts
ProcessingItems ==
    {d \in IngestItems :
        /\ d.description = Empty
        /\ d.content \in {Empty, Lit("b", 15), Lit("a", 100), TwoWords}}

SaveForProcessing == Save(ProcessingItems)

\* one call of process_all(limit)
ProcessAll ==
    \E limit \in 1..MaxLimit :
      \E picked \in LimitedSubsets(Unprocessed(items), limit) :
        \E outs \in [picked -> Outcomes] :
          LET r == process_loop(items, articles, picked, outs, <<>>)
          IN  /\ items' = r.items
              /\ articles' = r.articles
              /\ last' = [NoLast EXCEPT !.op = "process_all", !.limit = limit,
                                        !.results = r.results]
              /\ UNCHANGED <<delivered, subscribers, run, calls, source_rows,
                             digest_logs, workers>>
              /\ Snapshot

\* one call of process_all(limit), the score of each item being what
\* rate_quality makes of the model's answer
ProcessAllRated ==
    \E limit \in 1..MaxLimit :
      \E picked \in LimitedSubsets(Unprocessed(items), limit) :
        \E answers \in [picked -> Answers], commitOk \in [picked -> BOOLEAN] :
          LET outs == [i \in picked |->
                          [summary  |-> TRUE,
                           quality  |-> rate_quality(items[i].content, answers[i]),
                           commitOk |-> commitOk[i]]]
              r == process_loop(items, articles, picked, outs, <<>>)
          IN  /\ items' = r.items
              /\ articles' = r.articles
              /\ last' = [NoLast EXCEPT !.op = "process_all", !.limit = limit,
                                        !.results = r.results,
                                        !.answers = answers]
              /\ UNCHANGED <<delivered, subscribers, run, calls, source_rows,
                             digest_logs, workers>>
              /\ Snapshot

\* one call of process_single(content_item_id)
ProcessSingle ==
    \E id \in 1..(Len(items) + 1), o \in Outcomes :
        /\ IF id \in 1..Len(items)
           THEN LET r == process_item(items, articles, id, o)
                IN  /\ items' = r.items
                    /\ articles' = r.articles
                    /\ last' = [NoLast EXCEPT !.op = "process_single", !.item = id,
                                   !.ok = r.ok, !.branch = r.branch,
                                   !.results = << [item |-> id,
                                                   before |-> items[id].processed,
                                                   ok |-> r.ok,
                                                   branch |-> r.branch,
                                                   raised |-> r.raised] >>]
           ELSE /\ UNCHANGED <<items, articles>>
                /\ last' = [NoLast EXCEPT !.op = "process_single", !.item = id,
                                          !.branch = "not_found"]
        /\ UNCHANGED <<delivered, subscribers, run, calls, source_rows,
                       digest_logs, workers>>
        /\ Snapshot

\* item.processed = False for every item the recovery query returned
RECURSIVE ResetFlags(_, _)
ResetFlags(its, S) ==
    IF S = {}
    THEN its
    ELSE LET i == CHOOSE x \in S : \A y \in S : x <= y
         IN  ResetFlags([its EXCEPT ![i].processed = FALSE], S \ {i})

\* one call of reprocess_failed(limit): reset the picked orphans, commit, then
\* process_all(limit)
ReprocessFailed ==
    \E limit \in 1..MaxLimit, commitOk \in BOOLEAN :
      \E reset \in LimitedSubsets(Orphans(items, articles), limit) :
        /\ commitOk \/ reset # {}
        /\ LET its1 == IF commitOk THEN ResetFlags(items, reset) ELSE items
           IN  \E picked \in IF reset = {} \/ ~commitOk THEN {{}}
                             ELSE LimitedSubsets(Unprocessed(its1), limit) :
                 \E outs \in [picked -> Outcomes] :
                   LET r == process_loop(its1, articles, picked, outs, <<>>)
                   IN  /\ items' = r.items
                       /\ articles' = r.articles
                       /\ last' = [NoLast EXCEPT !.op = "reprocess_failed",
                                                 !.limit = limit,
                                                 !.commitOk = commitOk,
                                                 !.reset = reset,
                                                 !.results = r.results]
        /\ UNCHANGED <<delivered, subscribers, run, calls, source_rows,
                       digest_logs, workers>>
        /\ Snapshot

\* one call of generate_digest(max_articles, min_quality, digest_date)
GenerateDigest ==
    \E max_articles \in 1..MaxArticles, min_quality \in MinQualities,
       digest_date \in Dates, commitOk \in BOOLEAN :
      \E sel \in Selections(articles, max_articles, min_quality) :
        /\ commitOk \/ sel # <<>>
        /\ articles' = IF sel # <<>> /\ commitOk
                       THEN MarkIncluded(articles, sel, digest_date)
                       ELSE articles
        /\ delivered' = delivered \cup Range(sel)
        /\ last' = [NoLast EXCEPT !.op = "generate_digest",
                                  !.max_articles = max_articles,
                                  !.min_quality = min_quality,
                                  !.date = digest_date, !.commitOk = commitOk,
                                  !.sel = sel, !.html = (sel # <<>>)]
        /\ UNCHANGED <<items, subscribers, run, calls, source_rows,
                       digest_logs, workers>>
        /\ Snapshot

\* what the last operation leaves for a preview_digest(max_articles,
\* min_quality) that returns sel: `repeat` tells whether the operation before
\* was a preview with the same parameters, prev_sel is what that one returned
PreviewResult(max_articles, min_quality, sel) ==
    [NoLast EXCEPT !.op = "preview_digest",
                   !.max_articles = max_articles,
                   !.min_quality = min_quality,
                   !.sel = sel, !.html = (sel # <<>>),
                   !.repeat = (/\ last.op = "preview_digest"
                               /\ last.max_articles = max_articles
                               /\ last.min_quality = min_quality),
                   !.prev_sel = last.sel]

\* preview_digest ending with a call of _mark_articles_included
PreviewDigestMarking ==
    \E max_articles \in 1..MaxArticles, min_quality \in MinQualities :
      \E sel \in Selections(articles, max_articles, min_quality) :
        /\ last' = PreviewResult(max_articles, min_quality, sel)
        /\ articles' = MarkIncluded(articles, sel, 1)
        /\ UNCHANGED <<items, delivered, subscribers, run, calls, source_rows,
                       digest_logs, workers>>
        /\ Snapshot

\* one call of preview_digest(max_articles, min_quality)
PreviewDigest ==
    \E max_articles \in 1..MaxArticles, min_quality \in MinQualities :
      \E sel \in Selections(articles, max_articles, min_quality) :
        /\ last' = PreviewResult(max_articles, min_quality, sel)
        /\ UNCHANGED <<items, articles, delivered, subscribers, run, calls, source_rows,
                       digest_logs, workers>>
        /\ Snapshot

\* no run of the daily job is under way (the local variables of an ended
\* run are kept until another script or run starts)
Idle == run.pc \in {"idle", "done", "crashed"}

JobStep == last' = [NoLast EXCEPT !.op = "daily_digest"]

KeepSnapshot == UNCHANGED <<items0, articles0, delivered0>>

\* scripts/add_subscriber: SubscriberValidator.add_subscriber(email)
AddSubscriber ==
    \E email \in Emails, commitOk \in BOOLEAN :
        LET r == add_subscriber(subscribers, email, commitOk)
        IN  /\ Idle
            /\ commitOk \/ ~AlreadyActive(subscribers, email)
            /\ subscribers' = r.subscribers
            /\ last' = [NoLast EXCEPT !.op = "add_subscriber", !.ok = r.ok,
                                      !.commitOk = commitOk]
            /\ run' = NoRun
            /\ Snapshot
            /\ UNCHANGED <<items, articles, delivered, calls, source_rows,
                           digest_logs, workers>>

\* scripts/remove_subscriber: SubscriberValidator.remove_subscriber(email)
RemoveSubscriber ==
    \E email \in Emails, commitOk \in BOOLEAN :
        LET r == remove_subscriber(subscribers, email, commitOk)
        IN  /\ Idle
            /\ commitOk \/ FindByEmail(subscribers, email) # 0
            /\ subscribers' = r.subscribers
            /\ last' = [NoLast EXCEPT !.op = "remove_subscriber", !.ok = r.ok,
                                      !.commitOk = commitOk]
            /\ run' = NoRun
            /\ Snapshot
            /\ UNCHANGED <<items, articles, delivered, calls, source_rows,
                           digest_logs, workers>>

\* addresses as they are typed: in either case, with blanks around them,
\* with a blank inside, and blank
RawEmails ==
    { Lit("a", 1), Lit("A", 1), Cat(Lit(" ", 1), Lit("a", 1)),
      Cat(Lit("A", 1), Lit(" ", 2)), Lit("b", 1),
      Cat(Lit("a", 1), Cat(Lit(" ", 1), Lit("b", 1))), Lit(" ", 1) }

\* SubscriberValidator.add_subscriber(email) on an address as typed
RegistryAdd ==
    \E raw \in RawEmails, commitOk \in BOOLEAN :
        LET email == normalize_email(raw)
            r == IF validate_email(email)
                 THEN add_subscriber(subscribers, email, commitOk)
                 ELSE [ok |-> FALSE, subscribers |-> subscribers]
        IN  /\ commitOk \/ (/\ validate_email(email)
                            /\ ~AlreadyActive(subscribers, email))
            /\ subscribers' = r.subscribers
            /\ last' = [NoLast EXCEPT !.op = "add_subscriber", !.ok = r.ok,
                                      !.commitOk = commitOk, !.email = raw]
            /\ run' = [NoRun EXCEPT !.subs0 = subscribers]
            /\ Snapshot
            /\ UNCHANGED <<items, articles, delivered, calls, source_rows,
                           digest_logs, workers>>

\* SubscriberValidator.remove_subscriber(email) on an address as typed
RegistryRemove ==
    \E raw \in RawEmails, commitOk \in BOOLEAN :
        LET email == normalize_email(raw)
            r == remove_subscriber(subscribers, email, commitOk)
        IN  /\ commitOk \/ FindByEmail(subscribers, email) # 0
            /\ subscribers' = r.subscribers
            /\ last' = [NoLast EXCEPT !.op = "remove_subscriber", !.ok = r.ok,
                                      !.commitOk = commitOk, !.email = raw]
            /\ run' = [NoRun EXCEPT !.subs0 = subscribers]
            /\ Snapshot
            /\ UNCHANGED <<items, articles, delivered, calls, source_rows,
                           digest_logs, workers>>

\* main, STEP 0: the job starts and checks the subscribers
RunStart ==
    \E date \in {Today} :
        LET active == get_all_active(subscribers)
            r == [NoRun EXCEPT !.date = date, !.after_crash = (run.pc = "crashed"),
                               !.stages = <<"check">>, !.active = active,
                               !.subs0 = subscribers]
        IN  /\ Idle
            /\ \A k \in 1..Len(active) :
                  subscribers[active[k]].total_digests_sent < MaxSent
            /\ run' = IF active = <<>> THEN Return(r, 0) ELSE [r EXCEPT !.pc = "fetch"]
            /\ JobStep
            /\ Snapshot
            /\ UNCHANGED <<items, articles, delivered, subscribers, calls, source_rows,
                           digest_logs, workers>>

\* main, STEP 1: fetch_all(hours_back=24) up to its first save: the active
\* sources are read and their entries fetched
RunFetch ==
    \E srcs \in SUBSET Sources, cutoff \in Cutoffs :
      \E f \in [srcs -> UNION {FetchResults(s) : s \in Sources}] :
        /\ run.pc = "fetch"
        /\ \A s \in srcs : f[s] \in FetchResults(s)
        /\ LET g == [s \in srcs |->
                        IF SourceTypeOf(s) = "youtube"
                        THEN [f[s] EXCEPT !.entries = PublishedAfter(@, cutoff)]
                        ELSE f[s]]
               queue == QueueOf(srcs, g)
               r == [run EXCEPT !.stages = Append(@, "ingest"),
                                !.sources = srcs,
                                !.failed = {s \in srcs : f[s].failed},
                                !.cutoff = cutoff,
                                !.queue = queue,
                                !.by_source = [s \in srcs |-> SourceStats(Len(g[s].entries))],
                                !.total_fetched = Len(queue),
                                !.pc = "save"]
           IN  run' = IF queue = <<>> THEN AfterFetchAll(r) ELSE r
        /\ JobStep
        /\ KeepSnapshot
        /\ UNCHANGED <<items, articles, delivered, subscribers, calls, source_rows,
                       digest_logs, workers>>

\* one pass of the loop of _fetch_from_rss / _fetch_from_youtube: the cutoff
\* test (feeds only) and _save_content_item with its commit
RunSaveWith(C) ==
    \E commitOk \in C :
        /\ run.pc = "save"
        /\ LET s == run.queue[1].source
               data == run.queue[1].data
               old == /\ SourceTypeOf(s) = "rss"
                      /\ OlderThanCutoff(data.published_at, run.cutoff)
               r == save_content_item(items, SourceTypeOf(s), data, commitOk)
               counted ==
                   IF old THEN run
                   ELSE IF r.ok
                   THEN [run EXCEPT !.by_source[s].saved = @ + 1,
                                    !.total_saved = @ + 1]
                   ELSE [run EXCEPT !.by_source[s].duplicates = @ + 1,
                                    !.duplicates = @ + 1]
               popped == [counted EXCEPT !.queue = Tail(@)]
           IN  /\ commitOk \/ (~old /\ r.branch \in {"save_rolled_back",
                                                      "upgrade_rolled_back"})
               /\ items' = IF old THEN items ELSE r.items
               /\ run' = IF popped.queue = <<>> THEN AfterFetchAll(popped) ELSE popped
        /\ JobStep
        /\ KeepSnapshot
        /\ UNCHANGED <<articles, delivered, subscribers, calls, source_rows,
                       digest_logs, workers>>

\* the commit may go through or raise
RunSave == RunSaveWith(BOOLEAN)

\* main, STEP 2: process_all(limit=50) up to its loop: the query for the
\* unprocessed items
RunProcess ==
    \E picked \in LimitedSubsets(Unprocessed(items), RUN_PROCESS_LIMIT) :
        /\ run.pc = "process"
        /\ LET r == [run EXCEPT !.stages = Append(@, "process"),
                                !.picked = picked, !.pc = "item"]
           IN  run' = IF picked = {} THEN AfterProcessAll(r) ELSE r
        /\ JobStep
        /\ KeepSnapshot
        /\ UNCHANGED <<items, articles, delivered, subscribers, calls, source_rows,
                       digest_logs, workers>>

\* one pass of the loop of process_all: _process_item with its commit
RunProcessItemWith(O) ==
    \E o \in O :
        /\ run.pc = "item"
        /\ LET i == CHOOSE x \in run.picked : \A y \in run.picked : x <= y
               r == process_item(items, articles, i, o)
               counted == [run EXCEPT !.picked = @ \ {i},
                                      !.processed = IF r.ok THEN @ + 1 ELSE @]
           IN  /\ items' = r.items
               /\ articles' = r.articles
               /\ run' = IF counted.picked = {} THEN AfterProcessAll(counted)
                          ELSE counted
        /\ JobStep
        /\ KeepSnapshot
        /\ UNCHANGED <<delivered, subscribers, calls, source_rows,
                       digest_logs, workers>>

\* the summarizer and the commit may fail
RunProcessItem == RunProcessItemWith(RunOutcomes)

\* main, STEP 3: get_stats, then generate_digest(max_articles=10,
\* min_quality=5) with the commit of its marks
RunDigestWith(C) ==
    \E commitOk \in C :
      \E sel \in Selections(articles, RUN_MAX_ARTICLES, RUN_MIN_QUALITY) :
        LET available ==
                Cardinality({a \in 1..Len(articles) :
                                articles[a].included_in_digest = FALSE})
            r == [run EXCEPT !.stages = Append(@, "digest"), !.sel = sel,
                             !.html = (sel # <<>>)]
        IN  /\ run.pc = "digest"
            /\ commitOk \/ (available # 0 /\ sel # <<>>)
            /\ IF available = 0
               THEN /\ run' = Return(run, 0)
                    /\ UNCHANGED <<articles, delivered>>
               ELSE /\ articles' = IF sel # <<>> /\ commitOk
                                   THEN MarkIncluded(articles, sel, run.date)
                                   ELSE articles
                    /\ delivered' = delivered \cup Range(sel)
                    /\ run' = IF r.html THEN [r EXCEPT !.pc = "deliver"]
                              ELSE Return(r, 1)
            /\ JobStep
            /\ KeepSnapshot
            /\ UNCHANGED <<items, subscribers, calls, source_rows,
                           digest_logs, workers>>

\* the commit of the marks may go through or raise
RunDigest == RunDigestWith(BOOLEAN)

\* main, STEP 4: the delivery loop and the commit of the counters.  The
\* commit is not guarded: when it raises the process ends with status 1.
RunDeliverWith(C) ==
    \E success \in [1..Len(run.active) -> BOOLEAN], commitOk \in C :
        LET attempts == Attempts(run.active, success)
            sent == Cardinality({k \in 1..Len(attempts) : attempts[k].success})
            r == [run EXCEPT !.stages = Append(@, "deliver"),
                             !.attempts = attempts,
                             !.sent = sent,
                             !.failed_sends = Len(attempts) - sent]
        IN  /\ run.pc = "deliver"
            /\ commitOk \/ sent > 0
            /\ subscribers' = IF commitOk THEN CountSends(subscribers, attempts)
                              ELSE subscribers
            /\ run' = Return(r, IF commitOk /\ sent > 0 THEN 0 ELSE 1)
            /\ JobStep
            /\ KeepSnapshot
            /\ UNCHANGED <<items, articles, delivered, calls, source_rows,
                           digest_logs, workers>>

\* db.session.commit() at the end of the loop may go through or raise
RunDeliver == RunDeliverWith(BOOLEAN)

CrashLosingRun ==
    /\ ~Idle
    /\ run' = [run EXCEPT !.pc = "crashed"]
    /\ items' = items0
    /\ articles' = articles0
    /\ JobStep
    /\ KeepSnapshot
    /\ UNCHANGED <<delivered, subscribers, calls, source_rows,
                   digest_logs, workers>>

\* the process dies between two commits: what is committed stays
Crash ==
    /\ ~Idle
    /\ run' = [run EXCEPT !.pc = "crashed"]
    /\ JobStep
    /\ KeepSnapshot
    /\ UNCHANGED <<items, articles, delivered, subscribers, calls, source_rows,
                   digest_logs, workers>>

\* a query that sees the marks the other invocation has not committed yet
CallQuerySerialized(p) ==
    LET q == 3 - p
        visible == IF calls[q].pc = "mark"
                   THEN MarkIncluded(articles, calls[q].sel, Today)
                   ELSE articles
    IN  \E sel \in Selections(visible, RUN_MAX_ARTICLES, RUN_MIN_QUALITY) :
          /\ calls[p].pc = "idle"
          /\ calls' = [calls EXCEPT ![p] =
                          [@ EXCEPT !.pc = IF sel = <<>> THEN "done" ELSE "mark",
                                    !.sel = sel,
                                    !.overlapped = (calls[q].pc = "mark")]]
          /\ last' = [NoLast EXCEPT !.op = "concurrent_call", !.item = p]
          /\ UNCHANGED <<items, articles, delivered, subscribers, run, source_rows,
                         digest_logs, workers>>
          /\ Snapshot

\* invocation p runs the query of _get_articles_for_digest in its own
\* session: it reads what is committed.  overlapped records that the other
\* invocation had queried and not yet committed its marks.
CallQuery(p) ==
    LET q == 3 - p
    IN  \E sel \in Selections(articles, RUN_MAX_ARTICLES, RUN_MIN_QUALITY) :
          /\ calls[p].pc = "idle"
          /\ calls' = [calls EXCEPT ![p] =
                          [@ EXCEPT !.pc = IF sel = <<>> THEN "done" ELSE "mark",
                                    !.sel = sel,
                                    !.overlapped = (calls[q].pc = "mark")]]
          /\ last' = [NoLast EXCEPT !.op = "concurrent_call", !.item = p]
          /\ UNCHANGED <<items, articles, delivered, subscribers, run, source_rows,
                         digest_logs, workers>>
          /\ Snapshot

\* invocation p sets the marks on the rows it selected and commits; a commit
\* that raises is rolled back and generate_digest returns the HTML all the same
CallMark(p) ==
    \E commitOk \in BOOLEAN :
        /\ calls[p].pc = "mark"
        /\ articles' = IF commitOk
                       THEN MarkIncluded(articles, calls[p].sel, Today)
                       ELSE articles
        /\ calls' = [calls EXCEPT ![p] =
                        [@ EXCEPT !.pc = "send", !.committed = commitOk]]
        /\ last' = [NoLast EXCEPT !.op = "concurrent_call", !.item = p,
                                  !.commitOk = commitOk]
        /\ UNCHANGED <<items, delivered, subscribers, run, source_rows,
                       digest_logs, workers>>
        /\ KeepSnapshot

\* invocation p sends the digest it rendered from its selection
CallSend(p) ==
    /\ calls[p].pc = "send"
    /\ calls' = [calls EXCEPT ![p] =
                    [@ EXCEPT !.pc = "done", !.sent = Range(calls[p].sel)]]
    /\ delivered' = delivered \cup Range(calls[p].sel)
    /\ last' = [NoLast EXCEPT !.op = "concurrent_call", !.item = p]
    /\ UNCHANGED <<items, articles, subscribers, run, source_rows,
                   digest_logs, workers>>
    /\ KeepSnapshot

\* DigestLog(...).save() for a subscriber and a digest
CreateDigestLog ==
    \E sub \in 1..2, digest_date \in Dates, commitOk \in BOOLEAN :
        /\ Len(digest_logs) < MaxLogs
        /\ digest_logs' = IF commitOk
                          THEN Append(digest_logs,
                                      NewDigestLog(sub, digest_date, <<1>>))
                          ELSE digest_logs
        /\ last' = [NoLast EXCEPT !.op = "digest_log", !.item = sub,
                                  !.date = digest_date, !.commitOk = commitOk]
        /\ UNCHANGED <<items, articles, delivered, subscribers, run, calls,
                       source_rows, workers>>
        /\ Snapshot

\* log.mark_sent(email_service_id) on a stored row
MarkSent ==
    \E k \in 1..Len(digest_logs), id \in ServiceIds, commitOk \in BOOLEAN :
        /\ digest_logs' = IF commitOk
                          THEN [digest_logs EXCEPT ![k] = mark_sent(@, id)]
                          ELSE digest_logs
        /\ last' = [NoLast EXCEPT !.op = "mark_sent", !.item = k,
                                  !.commitOk = commitOk]
        /\ UNCHANGED <<items, articles, delivered, subscribers, run, calls,
                       source_rows, workers>>
        /\ Snapshot

\* log.mark_failed(error_message) on a stored row
MarkFailed ==
    \E k \in 1..Len(digest_logs), commitOk \in BOOLEAN :
        /\ digest_logs' = IF commitOk
                          THEN [digest_logs EXCEPT ![k] = mark_failed(@, "error")]
                          ELSE digest_logs
        /\ last' = [NoLast EXCEPT !.op = "mark_failed", !.item = k,
                                  !.commitOk = commitOk]
        /\ UNCHANGED <<items, articles, delivered, subscribers, run, calls,
                       source_rows, workers>>
        /\ Snapshot

\* titles and bodies that differ in case, in outer blanks and in the length
\* of inner blank runs
HashTitles ==
    { Lit("T", 1), Lit("t", 1), Cat(Lit(" ", 1), Lit("T", 1)), Lit("B", 1) }

HashBodies ==
    { Lit("a", 2), Lit("A", 2),
      Cat(Lit("a", 1), Cat(Lit(" ", 1), Lit("a", 1))),
      Cat(Lit("a", 1), Cat(Lit(" ", 3), Lit("A", 1))),
      Cat(Lit("a", 2), Lit(" ", 2)),
      Empty }

\* one call of generate_content_hash on an item with the given title and
\* content; the last two calls are kept
GenerateContentHash ==
    \E title \in HashTitles, body \in HashBodies :
        /\ last' = [NoLast EXCEPT
                      !.op = "generate_content_hash",
                      !.pairs = Append(IF Len(last.pairs) = 2
                                       THEN Tail(last.pairs) ELSE last.pairs,
                                       [title |-> title, body |-> body,
                                        hash |-> generate_content_hash(title, body)])]
        /\ UNCHANGED <<items, articles, delivered, subscribers, run, calls,
                       source_rows, digest_logs, workers>>
        /\ Snapshot

\* what two runs may fetch at the same time: the same entry, the same text
\* under two ids, the same text in another case, a short body and its full text
RaceItems ==
    {d \in IngestItems :
        /\ d.id # ""
        /\ d.description = Empty
        /\ d.transcript = Empty
        /\ d.content \in {Lit("b", 15), Lit("a", 100), Lit("A", 100)}}

\* run p, _save_content_item up to the commit
WorkerSave(p) ==
    \E src \in {"rss"}, data \in RaceItems :
        LET w == PendingSave(items, src, data)
        IN  /\ workers[p].pc = "idle"
            /\ workers' = [workers EXCEPT ![p] =
                  IF w.kind = "none"
                  THEN [NoWorker EXCEPT !.result = "not_saved"]
                  ELSE [NoWorker EXCEPT !.pc = "save", !.write = w]]
            /\ last' = [NoLast EXCEPT !.op = "worker_save", !.item = p,
                                      !.src = src, !.data = data]
            /\ UNCHANGED <<items, articles, delivered, subscribers, run, calls,
                           source_rows, digest_logs>>
            /\ Snapshot

\* run p, the commit of _save_content_item
WorkerSaveCommit(p) ==
    \E commitOk \in BOOLEAN :
        LET r == CommitSave(items, workers[p].write, commitOk)
        IN  /\ workers[p].pc = "save"
            /\ items' = r.items
            /\ workers' = [workers EXCEPT ![p] =
                  [NoWorker EXCEPT !.write = workers[p].write,
                                   !.result = IF r.ok THEN "saved" ELSE "not_saved"]]
            /\ last' = [NoLast EXCEPT !.op = "worker_save_commit", !.item = p,
                                      !.commitOk = commitOk, !.ok = r.ok]
            /\ UNCHANGED <<articles, delivered, subscribers, run, calls,
                           source_rows, digest_logs>>
            /\ Snapshot

\* run p, _process_item on a stored item up to the commit of the article; the
\* branches that return before it are taken in one step
WorkerProcess(p) ==
    \E i \in 1..Len(items), o \in Outcomes :
        LET early == \/ AlreadyHasArticle(articles, i)
                     \/ TooShortToProcess(items[i].content)
                     \/ ~o.summary
            r == process_item(items, articles, i, o)
        IN  /\ workers[p].pc = "idle"
            /\ ~early => o.commitOk
            /\ items' = IF early THEN r.items ELSE items
            /\ workers' = [workers EXCEPT ![p] =
                  IF early
                  THEN [NoWorker EXCEPT !.result = "not_processed"]
                  ELSE [NoWorker EXCEPT !.pc = "process", !.item = i,
                                        !.quality = o.quality]]
            /\ last' = [NoLast EXCEPT !.op = "worker_process", !.item = p]
            /\ UNCHANGED <<articles, delivered, subscribers, run, calls,
                           source_rows, digest_logs>>
            /\ Snapshot

\* run p, the commit of the article and of the processed flag
WorkerProcessCommit(p) ==
    \E commitOk \in BOOLEAN :
        LET r == CommitArticle(items, articles, workers[p].item,
                               workers[p].quality, commitOk)
        IN  /\ workers[p].pc = "process"
            /\ items' = r.items
            /\ articles' = r.articles
            /\ workers' = [workers EXCEPT ![p] =
                  [NoWorker EXCEPT !.item = workers[p].item,
                                   !.result = IF r.ok THEN "processed"
                                              ELSE "not_processed"]]
            /\ last' = [NoLast EXCEPT !.op = "worker_process_commit", !.item = p,
                                      !.commitOk = commitOk, !.ok = r.ok]
            /\ UNCHANGED <<delivered, subscribers, run, calls,
                           source_rows, digest_logs>>
            /\ Snapshot

\* ingestion, with process_all setting processed flags
Next ==
    \/ SaveContentItem
    \/ ProcessAll

Spec == Init /\ [][Next]_vars

\* the processing stage and its recovery operation
NextProcess ==
    \/ SaveForProcessing
    \/ ProcessAll
    \/ ProcessSingle
    \/ ReprocessFailed

SpecProcess == Init /\ [][NextProcess]_vars

\* processing and digest selection, fed with processable entries
NextDigest ==
    \/ SaveProcessable
    \/ ProcessAll
    \/ GenerateDigest
    \/ PreviewDigest

SpecDigest == Init /\ [][NextDigest]_vars

\* the daily job, run again and again (a run may crash), and the scripts
\* that manage the subscribers between runs
NextRun ==
    \/ AddSubscriber
    \/ RemoveSubscriber
    \/ RunStart
    \/ RunFetch
    \/ RunSave
    \/ RunProcess
    \/ RunProcessItem
    \/ RunDigest
    \/ RunDeliver
    \/ Crash

SpecRun == Init /\ [][NextRun]_vars

\* the store is filled first; then two invocations interleave step by step
NextRace ==
    \/ (calls = NoCalls /\ SaveProcessable)
    \/ (calls = NoCalls /\ ProcessAll)
    \/ \E p \in Invocations : CallQuery(p)
    \/ \E p \in Invocations : CallMark(p)
    \/ \E p \in Invocations : CallSend(p)

SpecRace == Init /\ [][NextRace]_vars

NextRate ==
    \/ SaveProcessable
    \/ ProcessAllRated

SpecRate == Init /\ [][NextRate]_vars

NextLog ==
    \/ CreateDigestLog
    \/ MarkSent
    \/ MarkFailed

SpecLog == Init /\ [][NextLog]_vars

\* the subscribers table under add_subscriber and remove_subscriber
NextRegistry ==
    \/ RegistryAdd
    \/ RegistryRemove

SpecRegistry == Init /\ [][NextRegistry]_vars

\* two ingestion or processing runs interleaved on one store
NextStore ==
    \E p \in Workers :
        \/ WorkerSave(p)
        \/ WorkerSaveCommit(p)
        \/ WorkerProcess(p)
        \/ WorkerProcessCommit(p)

SpecStore == Init /\ [][NextStore]_vars

\* the daily job run again and again by the scheduler, one run after another,
\* with a summarizer that answers and a store whose commits go through.  A run
\* that has started takes its next step (the interpreter keeps executing main);
\* a crash may end it at any point.
WorkingOutcomes == {o \in RunOutcomes : o.summary /\ o.commitOk}

RunStep ==
    \/ RunStart
    \/ RunFetch
    \/ RunSaveWith({TRUE})
    \/ RunProcess
    \/ RunProcessItemWith(WorkingOutcomes)
    \/ RunDigestWith({TRUE})
    \/ RunDeliverWith({TRUE})

NextEventual ==
    \/ AddSubscriber
    \/ RunStep
    \/ Crash

\* the steps of a run other than the save loop, each under the position it is
\* taken from
RunStepOutsideSave ==
    \/ Idle /\ RunStart
    \/ run.pc = "fetch" /\ RunFetch
    \/ run.pc = "process" /\ RunProcess
    \/ run.pc = "item" /\ RunProcessItemWith(WorkingOutcomes)
    \/ run.pc = "digest" /\ RunDigestWith({TRUE})
    \/ run.pc = "deliver" /\ RunDeliverWith({TRUE})

\* WF_vars(RunSaveWith({TRUE})) written out: the step is enabled exactly when
\* the run is in the save loop, and every step of the loop takes one entry
\* from the finite queue, so the condition says the loop is always left again
SaveLoopFair == []<>(run.pc # "save")

SpecEventual ==
    Init /\ [][NextEventual]_vars /\ WF_vars(RunStepOutsideSave) /\ SaveLoopFair

NextHash == GenerateContentHash

SpecHash == Init /\ [][NextHash]_vars

----------------------------------------------------------------------------
(* Properties                                                              *)

\* the normalized `title|body` text the secondary fingerprint is a hash of:
\* lower-cased, outer whitespace dropped, whitespace runs collapsed
NormalizedText(title, body) ==
    JoinSplit(Strip(Lower(Cat(Cat(title, Lit("|", 1)), body))))

Fingerprint(title, body) == Sha256(NormalizedText(title, body))

WithExternalId(its, ext) == {i \in 1..Len(its) : its[i].external_id = ext}

LastExt == ExternalIdOf(last.data)

\* the stored item the last save matched by external id (0 if none)
LastMatch == FindByExternalId(items0, LastExt)

\* C1: a raw item passed through _save_content_item twice in a row, the first
\* call reporting saved: the second call reports a duplicate, changes nothing,
\* and exactly one RawItem carries the external id.
C1_IdempotentIngestion ==
    (last.op = "save" /\ last.repeat /\ last.prev_ok) =>
        /\ ~last.ok
        /\ last.branch = "duplicate_external_id"
        /\ items = items0
        /\ Cardinality(WithExternalId(items, LastExt)) = 1

C1_Witness ==
    /\ last.op = "save" /\ last.repeat /\ last.prev_ok
    /\ ~last.ok
    /\ Len(items) = 2

\* C2: an incoming item whose external id is not stored and whose fingerprint
\* (hash of the normalized title|body) is that of a stored RawItem is not
\* persisted and is reported as a duplicate; no two stored RawItems have the
\* same normalized title|body.
C2_HashBasedCatch ==
    /\ (/\ last.op = "save"
        /\ LastExt # ""
        /\ LastMatch = 0
        /\ \E i \in 1..Len(items0) :
              Fingerprint(items0[i].title, items0[i].content)
                  = Fingerprint(last.data.title,
                                ExtractContent(last.src, last.data).content))
       => (~last.ok /\ items = items0)
    /\ \A i, j \in 1..Len(items) :
          i # j => NormalizedText(items[i].title, items[i].content)
                     # NormalizedText(items[j].title, items[j].content)

\* the duplicate was caught by its hash although its raw text differs from
\* the stored one
C2_Witness ==
    /\ last.op = "save"
    /\ last.branch = "duplicate_hash"
    /\ \E i \in 1..Len(items0) :
          /\ items0[i].content # BodyOf(last.data)
          /\ Fingerprint(items0[i].title, items0[i].content)
                = Fingerprint(last.data.title, BodyOf(last.data))

\* the case of C3 and C4: the incoming item matches a stored item by external
\* id, the stored body is shorter than 50 and the incoming one is not
UpgradeCase ==
    /\ last.op = "save"
    /\ LastExt # ""
    /\ LastMatch # 0
    /\ StrLen(items0[LastMatch].content) < 50
    /\ StrLen(BodyOf(last.data)) >= 50

\* the recomputed hash is the hash of a different stored RawItem
UpgradeCollides ==
    \E j \in 1..Len(items0) :
        /\ j # LastMatch
        /\ items0[j].content_hash
              = Fingerprint(items0[LastMatch].title, BodyOf(last.data))

\* the stored item carries the incoming body, its word count and its hash;
\* processed and every other RawItem are as before
Upgraded ==
    /\ Len(items) = Len(items0)
    /\ items[LastMatch].content = BodyOf(last.data)
    /\ items[LastMatch].word_count = SplitCount(BodyOf(last.data))
    /\ items[LastMatch].content_hash
          = Fingerprint(items0[LastMatch].title, BodyOf(last.data))
    /\ items[LastMatch].processed = items0[LastMatch].processed
    /\ items[LastMatch].external_id = items0[LastMatch].external_id
    /\ items[LastMatch].title = items0[LastMatch].title
    /\ \A i \in 1..Len(items0) : i # LastMatch => items[i] = items0[i]

\* C3 as stated: in the upgrade case (the store accepting writes) the stored
\* RawItem ends with the incoming body, a recomputed word count and hash,
\* processed and the other RawItems unchanged.
C3_Original == (UpgradeCase /\ last.commitOk) => Upgraded

\* C3, amended: the same, provided the recomputed hash is not the hash of a
\* different stored RawItem.
C3_UpgradeWithoutLoss ==
    (UpgradeCase /\ last.commitOk /\ ~UpgradeCollides) => (Upgraded /\ last.ok)

\* an upgrade of an item that was already marked processed, to a body with
\* another word count
C3_Witness ==
    /\ UpgradeCase /\ last.commitOk /\ ~UpgradeCollides
    /\ last.branch = "upgraded"
    /\ items0[LastMatch].processed
    /\ items[LastMatch].word_count # items0[LastMatch].word_count

\* C4: an upgrade whose recomputed hash is the hash of a different stored
\* RawItem is rolled back: the table is as before (body, word count and hash
\* of the stored item kept, no record lost) and the attempt reports duplicate.
C4_UpgradeCollision ==
    (UpgradeCase /\ UpgradeCollides) =>
        /\ ~last.ok
        /\ last.branch = "upgrade_rolled_back"
        /\ items = items0

C4_Witness ==
    /\ UpgradeCase /\ UpgradeCollides
    /\ last.commitOk
    /\ ~last.ok
    /\ Len(items) = 2

\* C5: an item with a new external id is persisted only if its extracted
\* content has at least 50 characters (non-video source) or 10 (video source).
C5_ThresholdPolicy ==
    (last.op = "save" /\ last.branch = "saved") =>
        StrLen(items[Len(items)].content)
            >= (IF last.src = "youtube" THEN 10 ELSE 50)

\* C6: no two RawItems share an external id, no two share a non-null hash.
C6_UniqueFingerprints ==
    \A i, j \in 1..Len(items) :
        i # j =>
            /\ items[i].external_id # items[j].external_id
            /\ (items[i].content_hash # NULL
                    => items[i].content_hash # items[j].content_hash)

\* two RawItems, the last operation an upgrade attempt that collided
C6_Witness ==
    /\ Len(items) = 2
    /\ last.op = "save"
    /\ last.branch = "upgrade_rolled_back"
    /\ items[1].content_hash # NULL /\ items[2].content_hash # NULL

ArticlesOf(i) == {a \in 1..Len(articles) : articles[a].content_item_id = i}

\* C7: every RawItem has at most one ProcessedRecord.
C7_ProcessingExactlyOnce ==
    \A i \in 1..Len(items) : Cardinality(ArticlesOf(i)) <= 1

\* the processing stage was invoked on an item that already had its record
C7_Witness ==
    /\ last.op \in {"process_single", "process_all", "reprocess_failed"}
    /\ \E k \in 1..Len(last.results) :
          /\ last.results[k].branch = "already_has_article"
          /\ Cardinality(ArticlesOf(last.results[k].item)) = 1

\* C8: when the commit of the new ProcessedRecord fails for an item whose
\* processed flag was false, no ProcessedRecord exists for the item, its flag
\* is still false, and process_all can pick it again (it is among the
\* unprocessed, and picked whenever they fit the limit).
C8_RollbackKeepsUnprocessed ==
    \A k \in 1..Len(last.results) :
        (last.results[k].branch = "rolled_back" /\ ~last.results[k].before) =>
            LET i == last.results[k].item
            IN  /\ ArticlesOf(i) = {}
                /\ items[i].processed = FALSE
                /\ \A limit \in 1..MaxLimit :
                      /\ \E P \in LimitedSubsets(Unprocessed(items), limit) : i \in P
                      /\ limit >= Cardinality(Unprocessed(items)) =>
                            \A P \in LimitedSubsets(Unprocessed(items), limit) : i \in P

C8_Witness ==
    \E k \in 1..Len(last.results) :
        /\ last.results[k].branch = "rolled_back"
        /\ ~last.results[k].before
        /\ items[last.results[k].item].processed = FALSE
        /\ Len(last.results) = 2

\* C9: a record in a digest returned by a non-preview run has
\* included_in_digest = true, and no later generate_digest or preview_digest
\* selects a record that an earlier returned digest contained.
C9_DigestExactlyOnce ==
    /\ \A r \in delivered : articles[r].included_in_digest = TRUE
    /\ last.op \in {"generate_digest", "preview_digest"}
          => Range(last.sel) \cap delivered0 = {}

\* C10: a non-preview run marks (true, run date) on every selected record or,
\* its commit failing, on none; the records it did not select are unchanged.
C10_MarksExactlySelected ==
    last.op = "generate_digest" =>
        /\ Len(articles) = Len(articles0)
        /\ \A a \in 1..Len(articles0) : a \notin Range(last.sel) => articles[a] = articles0[a]
        /\ \/ \A a \in Range(last.sel) :
                 articles[a] = [articles0[a] EXCEPT !.included_in_digest = TRUE,
                                                    !.digest_date = last.date]
           \/ /\ ~last.commitOk
              /\ \A a \in Range(last.sel) : articles[a] = articles0[a]

\* a committed run that selected two records, and one that left a record out
C10_Witness ==
    /\ last.op = "generate_digest"
    /\ last.commitOk
    /\ Len(last.sel) = 2
    /\ last.date = 2
    /\ \A a \in Range(last.sel) : articles[a].digest_date = 2

\* C11: preview_digest changes no ProcessedRecord; a preview that follows a
\* preview with the same parameters is drawn from the same candidate lists
\* (the same list when no two candidates tie in both sort keys at the cut),
\* and every previewed record is still eligible for a non-preview run.
C11_PreviewNonMutation ==
    last.op = "preview_digest" =>
        /\ articles = articles0
        /\ items = items0
        /\ Range(last.sel) \subseteq Eligible(articles, last.min_quality)
        /\ last.sel \in Selections(articles, last.max_articles, last.min_quality)
        /\ last.repeat =>
              LET S == Selections(articles, last.max_articles, last.min_quality)
              IN  /\ last.prev_sel \in S
                  /\ Range(last.prev_sel) \subseteq Eligible(articles, last.min_quality)
                  /\ Cardinality(S) = 1 => last.sel = last.prev_sel

\* two previews in a row with the same parameters, both returning the same
\* two records
C11_Witness ==
    /\ last.op = "preview_digest"
    /\ last.repeat
    /\ Len(last.sel) = 2
    /\ last.sel = last.prev_sel

\* the records the selection filters keep, read from the table as it was
\* before the last operation
Candidates ==
    {a \in 1..Len(articles0) :
        /\ articles0[a].included_in_digest = FALSE
        /\ articles0[a].quality_score >= last.min_quality}

\* a strictly before b: higher score, or the same score and published later
StrictlyBefore(a, b) ==
    \/ articles0[a].quality_score > articles0[b].quality_score
    \/ /\ articles0[a].quality_score = articles0[b].quality_score
       /\ articles0[a].published_at > articles0[b].published_at

\* C12: the selection of generate_digest and preview_digest is the first
\* min(M, n) of the n records with included_in_digest = false and
\* quality_score >= T, by score descending and, among equal scores, by
\* publication time descending: it has min(M, n) distinct records, all among
\* the n, none listed after a record it should precede, and no record left
\* out that should precede a listed one.
C12_SelectionResult ==
    last.op \in {"generate_digest", "preview_digest"} =>
        /\ Len(last.sel) = Min(last.max_articles, Cardinality(Candidates))
        /\ Injective(last.sel)
        /\ Range(last.sel) \subseteq Candidates
        /\ \A j, k \in 1..Len(last.sel) :
              j < k => ~StrictlyBefore(last.sel[k], last.sel[j])
        /\ \A a \in Candidates \ Range(last.sel) :
              \A k \in 1..Len(last.sel) : ~StrictlyBefore(a, last.sel[k])

\* two candidates of equal score, a limit of one: the one published later is
\* returned, and it is the one stored second
C12_Witness ==
    /\ last.op = "generate_digest"
    /\ last.max_articles = 1
    /\ Cardinality(Candidates) = 2
    /\ articles0[1].quality_score = articles0[2].quality_score
    /\ articles0[2].published_at > articles0[1].published_at
    /\ last.sel = <<2>>

MarkOf(art) == <<art.included_in_digest, art.digest_date>>

\* across one step: the (included_in_digest, digest_date) of a stored
\* ProcessedRecord is unchanged or goes from (false, null) to (true, d);
\* no record is removed, and a new record starts at (false, null)
MarkStep ==
    /\ Len(articles') >= Len(articles)
    /\ \A a \in 1..Len(articles) :
          \/ MarkOf(articles'[a]) = MarkOf(articles[a])
          \/ /\ MarkOf(articles[a]) = <<FALSE, NULL>>
             /\ articles'[a].included_in_digest = TRUE
             /\ articles'[a].digest_date \in Dates
    /\ \A a \in (Len(articles) + 1)..Len(articles') :
          MarkOf(articles'[a]) = <<FALSE, NULL>>

\* C13: over every operation, the (included_in_digest, digest_date) of a
\* ProcessedRecord changes only from (false, null) to (true, d): once it is
\* (true, d) it stays (true, d), so it changes at most once.
C13_MarkChangesOnce == [][MarkStep]_vars

\* a run of date 2 marks one record while a record marked on date 1 keeps
\* its mark
C13_Witness ==
    /\ last.op = "generate_digest"
    /\ last.date = 2
    /\ \E a, b \in 1..Len(articles0) :
          /\ MarkOf(articles0[a]) = <<TRUE, 1>>
          /\ MarkOf(articles[a]) = <<TRUE, 1>>
          /\ MarkOf(articles0[b]) = <<FALSE, NULL>>
          /\ MarkOf(articles[b]) = <<TRUE, 2>>

\* fetch_all of the current run has returned
FetchAllReturned == run.ingested

ZeroWithError == [fetched |-> 0, saved |-> 0, duplicates |-> 0, error |-> TRUE]

\* C14: when fetch_all has returned and the fetch of some active sources
\* failed, every other active source was fetched and its entry ingested
\* (counted as saved or duplicate unless older than the cutoff), and each
\* failed source is in by_source with zero counts and an error annotation.
C14_SourceFailureIsolation ==
    (FetchAllReturned /\ run.failed # {}) =>
        /\ DOMAIN run.by_source = run.sources
        /\ \A s \in run.sources \ run.failed :
              /\ run.by_source[s].fetched = 1
              /\ run.by_source[s].saved + run.by_source[s].duplicates
                    = IF s = "feed" /\ EntryA.published_at < run.cutoff THEN 0 ELSE 1
        /\ \A s \in run.failed : run.by_source[s] = ZeroWithError

StageOrder == <<"check", "ingest", "process", "digest", "deliver">>

Entered(stage) == \E k \in 1..Len(run.stages) : run.stages[k] = stage

\* C15: the stages a run has entered are a prefix of recipient check,
\* ingestion, processing, digest selection, delivery; processing is entered
\* only when ingestion saved an item (the table grew since the run started),
\* digest selection only when processing produced a record, delivery only
\* when a digest was generated.
C15_StageOrdering ==
    /\ Len(run.stages) <= Len(StageOrder)
    /\ \A k \in 1..Len(run.stages) : run.stages[k] = StageOrder[k]
    /\ Entered("process") => (run.total_saved >= 1 /\ Len(items) > Len(items0))
    /\ Entered("digest") => (run.processed >= 1 /\ Len(articles) > Len(articles0))
    /\ Entered("deliver") => (run.html /\ run.sel # <<>>)

\* a run that went through every stage
C15_Witness ==
    /\ run.pc = "done"
    /\ run.stages = StageOrder
    /\ run.exit = 0

\* C16: a finished run returns 0 exactly when the digest was delivered to at
\* least one recipient.
C16_ExitStatus ==
    run.pc = "done" => (run.exit = 0 <=> run.sent >= 1)

\* C17: a run that found no active recipient, or whose fetch_all found no
\* active source, ends with a non-zero status and has changed no RawItem,
\* ProcessedRecord, digest mark or recipient counter.
C17_FatalStopsEarly ==
    (/\ run.pc = "done"
     /\ \/ run.active = <<>>
        \/ (FetchAllReturned /\ run.sources = {}))
    => /\ run.exit # 0
       /\ items = items0
       /\ articles = articles0
       /\ subscribers = run.subs0

AttemptsTo(i) == {k \in 1..Len(run.attempts) : run.attempts[k].sub = i}

ReachedDelivery == run.pc = "done" /\ Entered("deliver")

\* C18: in a run that reached delivery, every subscriber that was active
\* when the run started got exactly one send, whatever the sends to the
\* others returned, and nobody else got one.
C18_OneAttemptEach ==
    ReachedDelivery =>
        \A i \in 1..Len(run.subs0) :
            Cardinality(AttemptsTo(i))
                = IF run.subs0[i].status = "active" THEN 1 ELSE 0

\* two active subscribers: the send to the first failed, the second was
\* sent to all the same
C18_Witness ==
    /\ ReachedDelivery
    /\ Len(run.attempts) = 2
    /\ ~run.attempts[1].success
    /\ run.attempts[2].success
    /\ run.exit = 0

\* C19: after a run that reached delivery, a subscriber whose send succeeded
\* has its stored counter one higher and its stored last-sent time set to
\* the time of the run; one whose send failed has its row unchanged.
C19_CountersAndTimestamps ==
    ReachedDelivery =>
        \A k \in 1..Len(run.attempts) :
            LET i == run.attempts[k].sub
            IN  IF run.attempts[k].success
                THEN /\ subscribers[i].total_digests_sent
                          = run.subs0[i].total_digests_sent + 1
                     /\ subscribers[i].last_digest_sent_at # NULL
                     /\ subscribers[i].last_digest_sent_at = run.date
                ELSE subscribers[i] = run.subs0[i]

\* across one step: every stored RawItem is still stored, with its identity,
\* a body that is the same or longer, and its processed flag if it was set;
\* every ProcessedRecord is still stored with its item and score; every
\* digest mark is kept
UnitsKept ==
    /\ Len(items') >= Len(items)
    /\ \A i \in 1..Len(items) :
          /\ items'[i].external_id = items[i].external_id
          /\ StrLen(items'[i].content) >= StrLen(items[i].content)
          /\ items[i].processed => items'[i].processed
    /\ Len(articles') >= Len(articles)
    /\ \A a \in 1..Len(articles) :
          /\ articles'[a].content_item_id = articles[a].content_item_id
          /\ articles'[a].quality_score = articles[a].quality_score
          /\ articles[a].included_in_digest = TRUE
                => MarkOf(articles'[a]) = MarkOf(articles[a])

\* no RawItem twice, no second ProcessedRecord, and a ProcessedRecord only
\* together with the processed flag of its item
NoDuplicateUnits ==
    /\ \A i, j \in 1..Len(items) :
          i # j => /\ items[i].external_id # items[j].external_id
                   /\ items[i].content_hash # items[j].content_hash
    /\ \A i \in 1..Len(items) : Cardinality(ArticlesOf(i)) <= 1
    /\ \A a \in 1..Len(articles) : items[articles[a].content_item_id].processed

\* C20: over runs of the job that may crash between any two commits, every
\* step (a crash and the runs after it included) keeps the units committed
\* so far, and there is never a duplicate RawItem or a second
\* ProcessedRecord.
C20_CrashSafeReinvocation == [][UnitsKept]_vars /\ []NoDuplicateUnits

\* a run that followed a crashed run met an entry stored before the crash
\* (counted as duplicate), saved another one and went on to delivery
C20_Witness ==
    /\ run.after_crash
    /\ ReachedDelivery
    /\ run.duplicates >= 1
    /\ \E i \in 1..Len(items0) : items0[i].processed
    /\ Len(articles) = 2

\* the items the processing loop of the last operation went through
Attempted == {last.results[k].item : k \in 1..Len(last.results)}

\* C21: reprocess_failed(limit) picks at most `limit` RawItems that are
\* marked processed and have no ProcessedRecord, resets exactly those (no
\* item with a record is touched), and feeds those same items through the
\* processing loop in the same call.
C21_RecoveryOperation ==
    (last.op = "reprocess_failed" /\ last.commitOk) =>
        /\ Cardinality(last.reset) <= last.limit
        /\ last.reset \subseteq Orphans(items0, articles0)
        /\ \A i \in 1..Len(items0) :
              FindArticleByItem(articles0, i) # 0 => items[i] = items0[i]
        /\ Attempted = last.reset

\* C22: nothing keeps two concurrent invocations apart: an invocation that
\* queries while the other one has queried and not yet committed its marks
\* selects every record the other one selected, and each invocation sends
\* exactly what it selected, so one record is sent by both.
C22_UnsentQueryRace ==
    \A p \in Invocations :
        /\ calls[p].overlapped =>
              Range(calls[3 - p].sel) \subseteq Range(calls[p].sel)
        /\ (calls[p].pc = "done" /\ calls[p].sel # <<>>) =>
              calls[p].sent = Range(calls[p].sel)

C22_Witness ==
    /\ calls[1].pc = "done" /\ calls[2].pc = "done"
    /\ calls[1].overlapped \/ calls[2].overlapped
    /\ calls[1].sent \cap calls[2].sent # {}

\* what the processing loop of the last operation did with item i, entered
\* with a usable session and with every commit going through
Handled(k) ==
    /\ k \in 1..Len(last.results)
    /\ ~last.results[k].raised

\* the summarizer has no part in what _process_item does with item i on
\* the store the operation started from
SummarizerNotInvoked(i) ==
    \A o1, o2 \in Outcomes :
        o1.commitOk = o2.commitOk =>
            process_item(items0, articles0, i, o1) =
                process_item(items0, articles0, i, o2)

\* the records item i had when the last operation started
RecordsBefore(i) ==
    {a \in 1..Len(articles0) : articles0[a].content_item_id = i}

\* C23: _process_item given an item that already has a ProcessedRecord sets
\* processed to true, does not invoke the summarizer, creates no record,
\* leaves the existing record unchanged and reports the item as skipped.
C23_SelfHealing ==
    \A k \in 1..Len(last.results) :
        LET i == last.results[k].item
        IN  (Handled(k) /\ RecordsBefore(i) # {}) =>
                /\ last.results[k].branch = "already_has_article"
                /\ ~last.results[k].ok
                /\ items[i].processed
                /\ SummarizerNotInvoked(i)
                /\ ArticlesOf(i) = RecordsBefore(i)
                /\ \A a \in RecordsBefore(i) : articles[a] = articles0[a]

C23_Witness ==
    /\ last.op = "process_single"
    /\ Handled(1)
    /\ last.results[1].branch = "already_has_article"
    /\ RecordsBefore(last.item) # {}
    /\ items[last.item].processed

\* C24: processing an item that has no ProcessedRecord and a body shorter
\* than 100 characters sets processed to true, creates no record, does not
\* invoke the summarizer and counts the item as skipped, not as failed.
C24_Unprocessable ==
    \A k \in 1..Len(last.results) :
        LET i == last.results[k].item
        IN  (/\ Handled(k)
             /\ RecordsBefore(i) = {}
             /\ StrLen(items0[i].content) < MIN_PROCESS_LENGTH) =>
                /\ last.results[k].branch = "too_short"
                /\ ~last.results[k].ok
                /\ items[i].processed
                /\ ArticlesOf(i) = {}
                /\ SummarizerNotInvoked(i)

C24_Witness ==
    /\ last.op = "process_all"
    /\ \E k \in 1..Len(last.results) :
          /\ Handled(k)
          /\ last.results[k].branch = "too_short"
          /\ ~last.results[k].before
          /\ StrLen(items0[last.results[k].item].content) = 15
          /\ items[last.results[k].item].processed

\* C25: when the summarizer returns no summary for an item whose flag was
\* false, no ProcessedRecord is created, the flag is still false, and the
\* next process_all picks from a set that holds the item (and picks it
\* whenever the unprocessed items fit its limit).
C25_SummarizationFailure ==
    \A k \in 1..Len(last.results) :
        (last.results[k].branch = "no_summary" /\ ~last.results[k].before) =>
            LET i == last.results[k].item
            IN  /\ ArticlesOf(i) = {}
                /\ Len(articles) = Len(articles0) +
                      Cardinality({j \in 1..Len(last.results) : last.results[j].ok})
                /\ ~items[i].processed
                /\ i \in Unprocessed(items)
                /\ \A limit \in 1..MaxLimit :
                      limit >= Cardinality(Unprocessed(items)) =>
                          LimitedSubsets(Unprocessed(items), limit) =
                              {Unprocessed(items)}

C25_Witness ==
    /\ last.op = "process_all"
    /\ Len(last.results) = 2
    /\ last.results[1].branch = "no_summary"
    /\ last.results[2].branch = "processed"
    /\ ~items[last.results[1].item].processed

\* the score the claim gives for an answer
ScoreFor(answer) ==
    CASE answer.kind # "int" -> 5
      [] answer.n < 0        -> 0
      [] answer.n > 10       -> 10
      [] OTHER               -> answer.n

\* C27: every ProcessedRecord has an integer quality score from 0 to 10: an
\* answer out of the range is clamped to it, an answer that is no integer
\* and an error of the collaborator give the default 5.
C27_QualityScoreRange ==
    /\ \A a \in 1..Len(articles) : articles[a].quality_score \in 0..10
    /\ \A k \in 1..Len(last.results) :
          (last.answers # <<>> /\ last.results[k].ok) =>
              LET i == last.results[k].item
              IN  \A a \in ArticlesOf(i) :
                      articles[a].quality_score = ScoreFor(last.answers[i])

C27_Witness ==
    /\ last.answers # <<>>
    /\ \E k \in 1..Len(last.results) :
          /\ last.results[k].ok
          /\ last.answers[last.results[k].item] = [kind |-> "int", n |-> 11]
          /\ \E a \in ArticlesOf(last.results[k].item) :
                articles[a].quality_score = 10
    /\ \E a \in 1..Len(articles) : articles[a].quality_score = 5

\* item i was handled by the last operation with its flag false and has it
\* true now: the operation changed the flag from false to true
SetByLast(k) ==
    /\ ~last.results[k].before
    /\ items[last.results[k].item].processed

\* C26: the processed flag of an item changes from false to true at most once
\* over any sequence of pipeline and recovery operations, and only when a
\* ProcessedRecord is produced for the item or it is judged unprocessable.
\* Every item is stored with the flag false, so an item whose flag was true
\* when an operation started has had its one change: the operation does not
\* change its flag from false to true again.
C26_FlagSetOnce ==
    \A k \in 1..Len(last.results) :
        SetByLast(k) =>
            /\ ~items0[last.results[k].item].processed
            /\ last.results[k].branch \in {"processed", "too_short"}

\* C28: each fetch of a source updates the last-fetched-at and the cumulative
\* fetched count of its row, and no operation of the pipeline deletes a row
\* of the sources table.
C28_FetchBookkeeping ==
    /\ DOMAIN source_rows = Sources
    /\ \A s \in run.sources :
          /\ source_rows[s].last_fetched_at # NULL
          /\ source_rows[s].last_fetched_at = run.date
          /\ source_rows[s].total_items_fetched >= run.by_source[s].fetched

\* a pass of the loop of _fetch_from_rss / _fetch_from_youtube over the entry
\* at the head of the queue
LoopPass == run.pc = "save" /\ run'.pc \notin {"crashed", "idle"}

\* what the statistics of source s count as saved or duplicate
Counted(r, s) == r.by_source[s].saved + r.by_source[s].duplicates

CutoffStep ==
    LoopPass =>
        LET s == run.queue[1].source
            data == run.queue[1].data
        IN  IF data.published_at < run.cutoff
            THEN /\ items' = items
                 /\ Counted(run', s) = Counted(run, s)
                 /\ run'.total_saved = run.total_saved
                 /\ run'.duplicates = run.duplicates
            ELSE /\ \E commitOk \in BOOLEAN :
                       items' = save_content_item(items, SourceTypeOf(s), data,
                                                  commitOk).items
                 /\ Counted(run', s) = Counted(run, s) + 1
                 /\ run'.total_saved + run'.duplicates =
                       run.total_saved + run.duplicates + 1

\* C29: a fetched item published before the cutoff is skipped without a
\* write in the store and without being counted as saved or duplicate; every
\* item published at or after the cutoff goes through the dedup decision of
\* _save_content_item and is counted as one or the other.
C29_RecencyCutoff == [][CutoffStep]_vars

\* fetch_all has gone through a feed entry older than the cutoff and a
\* video that is not
C29_Witness ==
    /\ run.ingested
    /\ run.cutoff = 2
    /\ run.sources = Sources
    /\ run.by_source["feed"].fetched = 1
    /\ Counted(run, "feed") = 0
    /\ run.by_source["channel"].saved = 1
    /\ Len(items) = 1

\* the loop pass over an entry that has neither an id nor a link and is not
\* older than the cutoff
MissingIdentityStep ==
    (/\ LoopPass
     /\ run.queue[1].data.id = ""
     /\ run.queue[1].data.link = ""
     /\ run.queue[1].data.published_at >= run.cutoff) =>
        /\ items' = items
        /\ articles' = articles
        /\ run'.total_fetched = run.total_fetched
        /\ run'.total_saved = run.total_saved
        /\ run'.duplicates = run.duplicates + 1
        /\ Counted(run', run.queue[1].source) =
              Counted(run, run.queue[1].source) + 1

\* C30: an incoming item with neither an id nor a link is never persisted
\* and changes no stored record; it is dropped, and the statistics of the
\* run count it (among the fetched, and among the ones not saved).
C30_MissingIdentity ==
    /\ [][MissingIdentityStep]_vars
    /\ [](\A i \in 1..Len(items) : items[i].external_id # "")

\* fetch_all has gone through a feed whose one entry has no id and no link
C30_Witness ==
    /\ run.ingested
    /\ run.cutoff = 1
    /\ run.sources = {"feed"}
    /\ run.total_fetched = 1
    /\ run.duplicates = 1
    /\ run.total_saved = 0
    /\ items = items0

\* the run has gone through its delivery loop
Delivered == run.pc = "done" /\ Len(run.attempts) > 0

\* C31: every delivery attempt to a recipient in a run creates one DigestLog
\* row for that recipient, carrying the digest date, the number of included
\* records and their ids.
C31_SendLogPerAttempt ==
    Delivered =>
        \A k \in 1..Len(run.attempts) :
            Cardinality({l \in 1..Len(digest_logs) :
                            /\ digest_logs[l].subscriber_id = run.attempts[k].sub
                            /\ digest_logs[l].digest_date = run.date
                            /\ digest_logs[l].articles_included = Len(run.sel)
                            /\ digest_logs[l].article_ids = run.sel}) = 1

\* a row that is sent or failed keeps its status
StatusStep ==
    \A l \in 1..Len(digest_logs) :
        digest_logs[l].status \in {"sent", "failed"} =>
            digest_logs'[l].status = digest_logs[l].status

\* C32: the status of a DigestLog starts as pending and moves only from
\* pending to sent or from pending to failed: whatever mark_sent and
\* mark_failed calls follow, a row that is sent or failed never changes its
\* status again.
C32_StatusTransitions ==
    /\ [][StatusStep]_vars
    /\ [](\A l \in 1..Len(digest_logs) :
             digest_logs[l].status \in {"pending", "sent", "failed"})

\* C33: the secondary fingerprint depends only on the normalized title|body
\* string: two (title, body) pairs whose strings are equal after lower-casing,
\* trimming and collapsing whitespace runs get the same fingerprint, and the
\* same pair always gets the same fingerprint.
C33_FingerprintOfNormalizedText ==
    \A j, k \in 1..Len(last.pairs) :
        NormalizedText(last.pairs[j].title, last.pairs[j].body)
            = NormalizedText(last.pairs[k].title, last.pairs[k].body)
        => last.pairs[j].hash = last.pairs[k].hash

\* two calls on pairs that differ as raw text and agree once normalized, and
\* so got one fingerprint
C33_Witness ==
    /\ Len(last.pairs) = 2
    /\ last.pairs[1].title # last.pairs[2].title
    /\ last.pairs[1].body # last.pairs[2].body
    /\ StrLen(last.pairs[1].body) # StrLen(last.pairs[2].body)
    /\ NormalizedText(last.pairs[1].title, last.pairs[1].body)
          = NormalizedText(last.pairs[2].title, last.pairs[2].body)
    /\ last.pairs[1].hash = last.pairs[2].hash

\* C34: under repeated sequential runs that get through fetch_all, with a
\* working summarizer and store, every stored item that is unprocessed and has
\* a body of at least 100 characters eventually has an article
ItemIds == 1..2

AwaitsProcessing(i) ==
    /\ i <= Len(items)
    /\ ~items[i].processed
    /\ StrLen(items[i].content) >= MIN_PROCESS_LENGTH
    /\ FindArticleByItem(articles, i) = 0

RunsKeepReturning == run.pc = "done" /\ run.ingested

C34_EventualProcessing ==
    ([]<>RunsKeepReturning) =>
        \A i \in ItemIds :
            [](AwaitsProcessing(i) => <>(FindArticleByItem(articles, i) # 0))

\* C35: when the job reaches delivery every selected record is already marked
\* as included; no step, a failed delivery and a crash included, takes a mark
\* away; a run selects no record that is marked, and so delivers none that
\* was marked before the run started
MarkedBeforeDelivery ==
    run.pc = "deliver" =>
        \A a \in Range(run.sel) : articles[a].included_in_digest = TRUE

MarksStay ==
    \A a \in 1..Len(articles) :
        articles[a].included_in_digest = TRUE
            => /\ a <= Len(articles')
               /\ articles'[a].included_in_digest = TRUE

MarkedNotSelected ==
    run.pc = "digest" =>
        \A a \in Range(run'.sel) : articles[a].included_in_digest = FALSE

MarkedNotDelivered ==
    run.pc = "deliver" /\ run'.sent > 0 =>
        \A a \in Range(run'.sel) :
            a <= Len(articles0) => articles0[a].included_in_digest = FALSE

C35_MarkingPrecedesDelivery ==
    /\ []MarkedBeforeDelivery
    /\ [][MarksStay /\ MarkedNotSelected /\ MarkedNotDelivered]_vars

\* C36: however two ingestion or processing runs interleave, no two stored
\* items share an external id or a content hash and no item has two articles;
\* a commit whose row collides with what the other run committed meanwhile
\* changes nothing and is reported as not saved / not processed
Collides(its, w) ==
    \E i \in 1..Len(its) :
        IF w.kind = "insert"
        THEN \/ its[i].external_id = w.row.external_id
             \/ its[i].content_hash = w.row.content_hash
        ELSE i # w.e /\ its[i].content_hash = w.row.content_hash

C36_StoreConstraintsUnderRaces ==
    /\ \A i, j \in 1..Len(items) :
          i # j => /\ items[i].external_id # items[j].external_id
                   /\ items[i].content_hash # items[j].content_hash
    /\ \A a, b \in 1..Len(articles) :
          a # b => articles[a].content_item_id # articles[b].content_item_id
    /\ \A p \in Workers :
          /\ last.op = "worker_save_commit" /\ last.item = p
             /\ Collides(items0, workers[p].write)
                => /\ items = items0
                   /\ workers[p].result = "not_saved"
          /\ last.op = "worker_process_commit" /\ last.item = p
             /\ (\E a \in 1..Len(articles0) :
                    articles0[a].content_item_id = workers[p].item)
                => /\ items = items0
                   /\ articles = articles0
                   /\ workers[p].result = "not_processed"

\* run p loses on the content hash: its commit goes through to the database,
\* where the other run has meanwhile saved the same text under another id
C36_Witness ==
    \E p, q \in Workers :
        /\ p # q
        /\ last.op = "worker_save_commit" /\ last.item = p /\ last.commitOk
        /\ workers[q].result = "saved"
        /\ workers[p].write.kind = "insert"
        /\ workers[p].result = "not_saved"
        /\ \A i \in 1..Len(items) :
              items[i].external_id # workers[p].write.row.external_id
        /\ \E i \in 1..Len(items) :
              items[i].content_hash = workers[p].write.row.content_hash

\* an item that the operation found marked processed, without an article and
\* with a body of at least 100 characters: marked as unprocessable while its
\* body was short, and upgraded since
StrandedBefore(i) ==
    /\ i \in 1..Len(items0)
    /\ items0[i].processed
    /\ \A a \in 1..Len(articles0) : articles0[a].content_item_id # i
    /\ StrLen(items0[i].content) >= MIN_PROCESS_LENGTH

HasArticleNow(i) == \E a \in 1..Len(articles) : articles[a].content_item_id = i

UpgradeKeepsFlag ==
    last.op = "save" =>
        \A i \in 1..Len(items0) : items[i].processed = items0[i].processed

NotSelectedByProcessAll ==
    \A i \in 1..Len(items0) :
        StrandedBefore(i) /\ last.op = "process_all"
            => \A k \in 1..Len(last.results) : last.results[k].item # i

\* C37 as stated: a save never changes a processed flag, process_all never
\* selects such an item, and the item gets an article only through
\* reprocess_failed
C37_Original ==
    /\ UpgradeKeepsFlag
    /\ NotSelectedByProcessAll
    /\ \A i \in 1..Len(items0) :
          StrandedBefore(i) /\ HasArticleNow(i) => last.op = "reprocess_failed"

\* C37, amended: a save never changes a processed flag, process_all never
\* selects such an item, and the item gets an article only through
\* reprocess_failed or through process_single called with its id
C37_UpgradeAfterUnprocessable ==
    /\ UpgradeKeepsFlag
    /\ NotSelectedByProcessAll
    /\ \A i \in 1..Len(items0) :
          StrandedBefore(i) /\ HasArticleNow(i)
              => last.op \in {"reprocess_failed", "process_single"}

C37_Witness ==
    \E i \in 1..Len(items0) :
        /\ StrandedBefore(i)
        /\ HasArticleNow(i)
        /\ last.op = "reprocess_failed"
        /\ i \in last.reset

\* C38: every stored item carries the fingerprint of its own title and body,
\* whether it was just saved, upgraded, or left alone by an upgrade that was
\* rolled back
C38_FingerprintConsistency ==
    \A i \in 1..Len(items) :
        items[i].content_hash =
            generate_content_hash(items[i].title, items[i].content)

\* an upgrade went through: item e has another body and another hash than
\* before the call
C38_Witness ==
    /\ last.op = "save"
    /\ last.branch = "upgraded"
    /\ \E e \in 1..Len(items0) :
          /\ items[e].content # items0[e].content
          /\ items[e].content_hash # items0[e].content_hash

\* the entries of source s that fetch_all has not gone through yet
InQueue(s) ==
    Cardinality({k \in 1..Len(run.queue) : run.queue[k].source = s})

RECURSIVE SumOver(_, _)
SumOver(S, field) ==
    IF S = {} THEN 0
    ELSE LET s == CHOOSE x \in S : TRUE
         IN  run.by_source[s][field] + SumOver(S \ {s}, field)

\* a loop pass over an entry inside the window adds one to saved or to
\* duplicates of its source, never to both, and leaves the other sources alone
CountedOnceStep ==
    LoopPass /\ run.queue[1].data.published_at >= run.cutoff =>
        LET s == run.queue[1].source
            saved == run'.by_source[s].saved - run.by_source[s].saved
            dups == run'.by_source[s].duplicates - run.by_source[s].duplicates
        IN  /\ <<saved, dups>> \in {<<1, 0>>, <<0, 1>>}
            /\ run'.by_source[s].fetched = run.by_source[s].fetched
            /\ \A t \in run.sources \ {s} : run'.by_source[t] = run.by_source[t]

FetchAllResult ==
    run.pc = "save" \/ run.ingested =>
        /\ \A s \in run.sources :
              Counted(run, s) + InQueue(s) <= run.by_source[s].fetched
        /\ run.ingested =>
              /\ run.total_fetched = SumOver(run.sources, "fetched")
              /\ run.total_saved = SumOver(run.sources, "saved")
              /\ run.duplicates = SumOver(run.sources, "duplicates")

\* C39: fetch_all counts every fetched entry inside the window once, as saved
\* or as duplicate, so that saved + duplicates <= fetched for every source,
\* and its three totals are the sums of the per-source counts
C39_IngestionStatistics == [][CountedOnceStep]_vars /\ []FetchAllResult

\* fetch_all has returned with one entry saved and one counted as duplicate,
\* from two sources
C39_Witness ==
    /\ run.ingested
    /\ run.sources = Sources
    /\ run.total_fetched = 2
    /\ run.total_saved = 1
    /\ run.duplicates = 1
    /\ \A s \in Sources : Counted(run, s) = 1

\* the address a typed address stands for: trimmed and lower-cased
Normalized(email) == Lower(Strip(email))

\* the rows of table subs stored under the address that email stands for
RowsOf(subs, email) ==
    {i \in 1..Len(subs) : Normalized(subs[i].email) = Normalized(email)}

\* every row of the table before the call is still there, under its address
RowsKept ==
    /\ Len(subscribers) >= Len(run.subs0)
    /\ \A i \in 1..Len(run.subs0) : subscribers[i].email = run.subs0[i].email

\* C40: there is at most one subscriber per normalized address;
\* add_subscriber on an address whose row is not active makes that row active
\* and adds none, on an address whose row is active it fails and changes
\* nothing; remove_subscriber sets the row to unsubscribed and deletes nothing
C40_RecipientRegistry ==
    /\ \A i \in 1..Len(subscribers) :
          Cardinality(RowsOf(subscribers, subscribers[i].email)) = 1
    /\ last.op \in {"add_subscriber", "remove_subscriber"} => RowsKept
    /\ \A i \in RowsOf(run.subs0, last.email) :
          /\ last.op = "add_subscriber" /\ run.subs0[i].status # "active"
                => /\ Len(subscribers) = Len(run.subs0)
                   /\ last.commitOk
                         => (last.ok /\ subscribers[i].status = "active")
          /\ last.op = "add_subscriber" /\ run.subs0[i].status = "active"
                => (~last.ok /\ subscribers = run.subs0)
          /\ last.op = "remove_subscriber"
                => /\ Len(subscribers) = Len(run.subs0)
                   /\ last.commitOk
                         => (last.ok /\ subscribers[i].status = "unsubscribed")

\* an unsubscribed address typed again in capitals and with blanks around it
\* was reactivated in its own row
C40_Witness ==
    /\ last.op = "add_subscriber"
    /\ last.ok
    /\ last.email # Normalized(last.email)
    /\ Len(subscribers) = 2
    /\ Len(run.subs0) = 2
    /\ \E i \in RowsOf(run.subs0, last.email) :
          /\ run.subs0[i].status = "unsubscribed"
          /\ subscribers[i].status = "active"

====
